---- MODULE Spec2Model ----
(***************************************************************************)
(* Verification model of the SharePoint -> Astra DB ingestion dashboard.   *)
(*                                                                         *)
(* Three subsystems are modelled, each with its own specification:         *)
(*   SpecInsert : AstraClient.insert_documents     (utils/astra_client.py) *)
(*   SpecSplit  : SimpleTextSplitter.split_text (utils/document_processor) *)
(*   SpecSync   : process_sharepoint_documents run from several Streamlit  *)
(*                sessions that share the cached service clients           *)
(*                (streamlit_app.py)                                       *)
(* The variables of a subsystem that a specification does not exercise     *)
(* keep their idle values.                                                 *)
(***************************************************************************)
EXTENDS Integers, Sequences, FiniteSets, TLC

(***************************************************************************)
(* Small helpers                                                           *)
(***************************************************************************)
Min(a, b) == IF a <= b THEN a ELSE b

RECURSIVE SumTo(_, _)
\* sum of f[0] + ... + f[n-1]
SumTo(f, n) == IF n = 0 THEN 0 ELSE f[n - 1] + SumTo(f, n - 1)

(***************************************************************************)
(* AstraClient.insert_documents                                            *)
(***************************************************************************)
\* largest number of documents handed to one insert_documents call
MaxDocs == 41

\* astra_client.py:140  batch_size = 20
batch_size == 20

VARIABLES
    ins_pc,              \* position inside insert_documents
    collection,          \* self.collection is available (truthy)
    documents_is_none,   \* the argument is None instead of a list
    n_documents,         \* len(documents), 0 for None
    batch_num,           \* index of the batch being processed (enumerate)
    doc_i,               \* index i of the next document inside the batch
    batch_docs,          \* len(batch_docs): records prepared for this batch
    successful_inserts,
    failed_inserts,
    ins_result,          \* the returned dict, or NoResult
    insert_many_calls,   \* history: batch -> number of collection.insert_many calls
    store_failed,        \* history: batches whose insert_many raised
    prep_failed          \* history: batch -> documents whose preparation raised

insVars == <<ins_pc, collection, documents_is_none, n_documents, batch_num, doc_i, batch_docs,
             successful_inserts, failed_inserts, ins_result,
             insert_many_calls, store_failed, prep_failed>>

NoResult == [successful |-> -1, failed |-> -1, total |-> -1]

\* number of batches: len([documents[i:i+batch_size] for i in range(0, len, batch_size)])
NumBatches(n) == (n + batch_size - 1) \div batch_size

\* len(documents[i:i + batch_size]) for the b-th batch
BatchLen(n, b) == Min(batch_size, n - b * batch_size)

BatchIds == 0 .. (NumBatches(MaxDocs + 1))

InsIdle ==
    /\ ins_pc = "idle"
    /\ collection = TRUE
    /\ documents_is_none = FALSE
    /\ n_documents = 0
    /\ batch_num = 0
    /\ doc_i = 0
    /\ batch_docs = 0
    /\ successful_inserts = 0
    /\ failed_inserts = 0
    /\ ins_result = NoResult
    /\ insert_many_calls = [b \in BatchIds |-> 0]
    /\ store_failed = {}
    /\ prep_failed = [b \in BatchIds |-> 0]

InsInit ==
    /\ ins_pc = "start"
    /\ collection \in BOOLEAN
    /\ documents_is_none \in BOOLEAN
    /\ n_documents \in (IF documents_is_none THEN {0} ELSE 0 .. MaxDocs)
    /\ batch_num = 0
    /\ doc_i = 0
    /\ batch_docs = 0
    /\ successful_inserts = 0
    /\ failed_inserts = 0
    /\ ins_result = NoResult
    /\ insert_many_calls = [b \in BatchIds |-> 0]
    /\ store_failed = {}
    /\ prep_failed = [b \in BatchIds |-> 0]

\* astra_client.py:125-134  no collection: everything is reported failed
InsNoCollection ==
    /\ ins_pc = "start"
    /\ ~collection
    /\ ins_result' = [successful |-> 0, failed |-> n_documents, total |-> n_documents]
    /\ ins_pc' = "done"
    /\ UNCHANGED <<collection, documents_is_none, n_documents, batch_num, doc_i, batch_docs,
                   successful_inserts, failed_inserts, insert_many_calls,
                   store_failed, prep_failed>>

\* astra_client.py:136-143  counters reset, batches cut, loop entered
InsBegin ==
    /\ ins_pc = "start"
    /\ collection
    /\ ~documents_is_none
    /\ successful_inserts' = 0
    /\ failed_inserts' = 0
    /\ batch_num' = 0
    /\ doc_i' = 0
    /\ batch_docs' = 0
    /\ ins_pc' = IF NumBatches(n_documents) = 0 THEN "return" ELSE "batch"
    /\ UNCHANGED <<collection, documents_is_none, n_documents, ins_result, insert_many_calls,
                   store_failed, prep_failed>>

\* a loader whose outermost handler re-raises
InsOuterExcept_reraise ==
    /\ ins_pc = "start"
    /\ collection
    /\ documents_is_none
    /\ ins_pc' = "raised"
    /\ UNCHANGED <<collection, documents_is_none, n_documents, batch_num, doc_i,
                   batch_docs, successful_inserts, failed_inserts, ins_result,
                   insert_many_calls, store_failed, prep_failed>>

\* astra_client.py:141, 198-204  len(None) raises TypeError inside the outer
\* try: the outermost handler returns a record, the exception goes no further
InsOuterExcept ==
    /\ ins_pc = "start"
    /\ collection
    /\ documents_is_none
    /\ ins_result' = [successful |-> 0, failed |-> 0, total |-> 0]
    /\ ins_pc' = "done"
    /\ UNCHANGED <<collection, documents_is_none, n_documents, batch_num, doc_i,
                   batch_docs, successful_inserts, failed_inserts,
                   insert_many_calls, store_failed, prep_failed>>

\* astra_client.py:147-172  one document prepared and appended to batch_docs
InsPrepareOk ==
    /\ ins_pc = "batch"
    /\ doc_i < BatchLen(n_documents, batch_num)
    /\ batch_docs' = batch_docs + 1
    /\ doc_i' = doc_i + 1
    /\ UNCHANGED <<ins_pc, collection, documents_is_none, n_documents, batch_num, successful_inserts,
                   failed_inserts, ins_result, insert_many_calls, store_failed,
                   prep_failed>>

\* astra_client.py:174-176  preparing one document raised: it alone is failed
InsPrepareFail ==
    /\ ins_pc = "batch"
    /\ doc_i < BatchLen(n_documents, batch_num)
    /\ failed_inserts' = failed_inserts + 1
    /\ prep_failed' = [prep_failed EXCEPT ![batch_num] = @ + 1]
    /\ doc_i' = doc_i + 1
    /\ UNCHANGED <<ins_pc, collection, documents_is_none, n_documents, batch_num, batch_docs,
                   successful_inserts, ins_result, insert_many_calls, store_failed>>

\* the for loop over document_batches advances (astra_client.py:143-145)
NextBatch ==
    /\ batch_num' = batch_num + 1
    /\ doc_i' = 0
    /\ batch_docs' = 0
    /\ ins_pc' = IF batch_num + 1 < NumBatches(n_documents) THEN "batch" ELSE "return"

\* astra_client.py:179-183  insert_many accepted the batch
InsInsertBatchOk ==
    /\ ins_pc = "batch"
    /\ doc_i = BatchLen(n_documents, batch_num)
    /\ batch_docs > 0
    /\ insert_many_calls' = [insert_many_calls EXCEPT ![batch_num] = @ + 1]
    /\ successful_inserts' = successful_inserts + batch_docs
    /\ NextBatch
    /\ UNCHANGED <<collection, documents_is_none, n_documents, failed_inserts, ins_result,
                   store_failed, prep_failed>>

\* a loader that gives up after the first failed batch
InsInsertBatchFail_abort ==
    /\ ins_pc = "batch"
    /\ doc_i = BatchLen(n_documents, batch_num)
    /\ batch_docs > 0
    /\ insert_many_calls' = [insert_many_calls EXCEPT ![batch_num] = @ + 1]
    /\ store_failed' = store_failed \cup {batch_num}
    /\ failed_inserts' = failed_inserts + batch_docs
    /\ ins_pc' = "return"
    /\ UNCHANGED <<batch_num, doc_i, batch_docs>>
    /\ UNCHANGED <<collection, documents_is_none, n_documents, successful_inserts, ins_result,
                   prep_failed>>

\* a loader that counts the whole batch, prepared or not, as failed
InsInsertBatchFail_whole ==
    /\ ins_pc = "batch"
    /\ doc_i = BatchLen(n_documents, batch_num)
    /\ batch_docs > 0
    /\ insert_many_calls' = [insert_many_calls EXCEPT ![batch_num] = @ + 1]
    /\ store_failed' = store_failed \cup {batch_num}
    /\ failed_inserts' = failed_inserts + BatchLen(n_documents, batch_num)
    /\ NextBatch
    /\ UNCHANGED <<collection, documents_is_none, n_documents, successful_inserts, ins_result,
                   prep_failed>>

\* astra_client.py:184-186  insert_many raised: the prepared records are failed
InsInsertBatchFail ==
    /\ ins_pc = "batch"
    /\ doc_i = BatchLen(n_documents, batch_num)
    /\ batch_docs > 0
    /\ insert_many_calls' = [insert_many_calls EXCEPT ![batch_num] = @ + 1]
    /\ store_failed' = store_failed \cup {batch_num}
    /\ failed_inserts' = failed_inserts + batch_docs
    /\ NextBatch
    /\ UNCHANGED <<collection, documents_is_none, n_documents, successful_inserts, ins_result,
                   prep_failed>>

\* astra_client.py:179  "if batch_docs:" is false, nothing is sent to the store
InsSkipEmptyBatch ==
    /\ ins_pc = "batch"
    /\ doc_i = BatchLen(n_documents, batch_num)
    /\ batch_docs = 0
    /\ NextBatch
    /\ UNCHANGED <<collection, documents_is_none, n_documents, successful_inserts, failed_inserts,
                   ins_result, insert_many_calls, store_failed, prep_failed>>

\* astra_client.py:192-196
InsReturn ==
    /\ ins_pc = "return"
    /\ ins_result' = [successful |-> successful_inserts,
                      failed |-> failed_inserts,
                      total |-> n_documents]
    /\ ins_pc' = "done"
    /\ UNCHANGED <<collection, documents_is_none, n_documents, batch_num, doc_i, batch_docs,
                   successful_inserts, failed_inserts, insert_many_calls,
                   store_failed, prep_failed>>

(***************************************************************************)
(* SimpleTextSplitter.split_text                                           *)
(* A text is a sequence of one-character strings.                          *)
(***************************************************************************)
\* longest text split
MaxTextLen == 5
\* largest chunk_size tried (chunk_size ranges over 1 .. MaxChunkSize)
MaxChunkSize == 3
\* largest chunk_overlap tried (chunk_overlap ranges over 0 .. MaxOverlap)
MaxOverlap == 2

\* a letter, the blank, the line break and the full stop
Alphabet == {"a", " ", "\n", "."}

\* the characters str.strip() removes that occur in Alphabet
Whitespace == {" ", "\n"}

Texts == UNION {[1 .. n -> Alphabet] : n \in 0 .. MaxTextLen}

\* document_processor.py:51  ["\n\n", "\n", ". ", " ", ""]
separators == << <<"\n", "\n">>, <<"\n">>, <<".", " ">>, <<" ">>, <<>> >>

\* sep occurs in s at position i
MatchAt(s, sep, i) ==
    /\ i + Len(sep) - 1 <= Len(s)
    /\ \A k \in 1 .. Len(sep) : s[i + k - 1] = sep[k]

RECURSIVE PySplitFrom(_, _, _, _)
PySplitFrom(s, sep, i, cur) ==
    IF i > Len(s) THEN <<cur>>
    ELSE IF MatchAt(s, sep, i)
         THEN <<cur>> \o PySplitFrom(s, sep, i + Len(sep), <<>>)
         ELSE PySplitFrom(s, sep, i + 1, Append(cur, s[i]))

\* Python str.split(sep) for a non-empty sep: cut at every non-overlapping
\* occurrence from the left, the separator dropped, empty pieces kept
PySplit(s, sep) == PySplitFrom(s, sep, 1, <<>>)

RECURSIVE LStrip(_)
LStrip(s) == IF s # <<>> /\ Head(s) \in Whitespace THEN LStrip(Tail(s)) ELSE s

RECURSIVE RStrip(_)
RStrip(s) ==
    IF s # <<>> /\ s[Len(s)] \in Whitespace THEN RStrip(SubSeq(s, 1, Len(s) - 1)) ELSE s

\* Python str.strip()
Strip(s) == RStrip(LStrip(s))

\* Python s[-k:] for k > 0
LastChars(s, k) == IF Len(s) > k THEN SubSeq(s, Len(s) - k + 1, Len(s)) ELSE s

\* [x for x in ss if x.strip()]
FilterBlank(ss) == SelectSeq(ss, LAMBDA c : Strip(c) # <<>>)

RECURSIVE ExtendSplits(_, _, _)
\* the inner loop of document_processor.py:66-70 for a non-empty separator
ExtendSplits(ss, sep, cs) ==
    IF ss = <<>> THEN <<>>
    ELSE (IF Len(Head(ss)) > cs THEN PySplit(Head(ss), sep) ELSE <<Head(ss)>>)
         \o ExtendSplits(Tail(ss), sep, cs)

\* document_processor.py:64-71, one separator of the cascade applied to all
\* splits.  str.split("") raises ValueError, so the empty separator raises as
\* soon as one piece is still longer than chunk_size.
ApplySeparator(ss, sep, cs) ==
    IF sep = <<>>
    THEN IF \E i \in 1 .. Len(ss) : Len(ss[i]) > cs
         THEN [raised |-> TRUE, splits |-> ss]
         ELSE [raised |-> FALSE, splits |-> ss]
    ELSE [raised |-> FALSE, splits |-> ExtendSplits(ss, sep, cs)]

\* document_processor.py:82-86  the chunk that follows a closed chunk
SeedChunk(chs, split, co) ==
    IF co > 0 /\ chs # <<>>
    THEN LastChars(chs[Len(chs)], co) \o split
    ELSE split

\* document_processor.py:75-86  one iteration of the combining loop
CombineOne(cur, chs, split, cs, co) ==
    IF Len(cur) + Len(split) <= cs
    THEN [current_chunk |-> cur \o split, chunks |-> chs]
    ELSE LET closed == IF cur # <<>> THEN Append(chs, Strip(cur)) ELSE chs
         IN  [current_chunk |-> SeedChunk(closed, split, co), chunks |-> closed]

\* document_processor.py:88-93  last chunk appended, blank chunks filtered
FinishChunks(cur, chs) ==
    FilterBlank(IF cur # <<>> THEN Append(chs, Strip(cur)) ELSE chs)

RECURSIVE CascadeFrom(_, _, _)
CascadeFrom(ss, k, cs) ==
    IF k > Len(separators) THEN [raised |-> FALSE, splits |-> ss]
    ELSE LET r == ApplySeparator(ss, separators[k], cs)
         IN  IF r.raised THEN r ELSE CascadeFrom(r.splits, k + 1, cs)

RECURSIVE CombineFrom(_, _, _, _, _, _)
CombineFrom(ss, i, cur, chs, cs, co) ==
    IF i > Len(ss) THEN FinishChunks(cur, chs)
    ELSE LET r == CombineOne(cur, chs, ss[i], cs, co)
         IN  CombineFrom(ss, i + 1, r.current_chunk, r.chunks, cs, co)

\* document_processor.py:53-93  split_text as a function of its inputs
SplitText(t, cs, co) ==
    IF t = <<>> THEN [raised |-> FALSE, chunks |-> <<>>]
    ELSE IF Len(t) <= cs THEN [raised |-> FALSE, chunks |-> <<t>>]
    ELSE LET c == CascadeFrom(<<t>>, 1, cs)
         IN  IF c.raised THEN [raised |-> TRUE, chunks |-> <<>>]
             ELSE [raised |-> FALSE,
                   chunks |-> CombineFrom(c.splits, 1, <<>>, <<>>, cs, co)]

VARIABLES
    sp_pc,           \* position inside split_text
    text,
    chunk_size,      \* self.chunk_size
    chunk_overlap,   \* self.chunk_overlap
    sep_idx,         \* index into separators of the next separator
    splits,
    split_idx,       \* index into splits of the next split to combine
    current_chunk,
    chunks,
    sp_raised,       \* split_text ended with an exception
    sp_result        \* the returned list

spVars == <<sp_pc, text, chunk_size, chunk_overlap, sep_idx, splits, split_idx,
            current_chunk, chunks, sp_raised, sp_result>>

SplitIdle ==
    /\ sp_pc = "idle"
    /\ text = <<>>
    /\ chunk_size = 1
    /\ chunk_overlap = 0
    /\ sep_idx = 1
    /\ splits = <<>>
    /\ split_idx = 1
    /\ current_chunk = <<>>
    /\ chunks = <<>>
    /\ sp_raised = FALSE
    /\ sp_result = <<>>

SplitInit ==
    /\ sp_pc = "start"
    /\ text \in Texts
    /\ chunk_size \in 1 .. MaxChunkSize
    /\ chunk_overlap \in 0 .. MaxOverlap
    /\ sep_idx = 1
    /\ splits = <<>>
    /\ split_idx = 1
    /\ current_chunk = <<>>
    /\ chunks = <<>>
    /\ sp_raised = FALSE
    /\ sp_result = <<>>

\* a splitter that strips and filters the short text as well
SplitEarlyReturn_filtered ==
    /\ sp_pc = "start"
    /\ text = <<>> \/ Len(text) <= chunk_size
    /\ sp_result' = FilterBlank(<<Strip(text)>>)
    /\ sp_pc' = "done"
    /\ UNCHANGED <<text, chunk_size, chunk_overlap, sep_idx, splits, split_idx,
                   current_chunk, chunks, sp_raised>>

\* document_processor.py:55-56  return [text] if text else []
SplitEarlyReturn ==
    /\ sp_pc = "start"
    /\ text = <<>> \/ Len(text) <= chunk_size
    /\ sp_result' = IF text # <<>> THEN <<text>> ELSE <<>>
    /\ sp_pc' = "done"
    /\ UNCHANGED <<text, chunk_size, chunk_overlap, sep_idx, splits, split_idx,
                   current_chunk, chunks, sp_raised>>

\* document_processor.py:58-62
SplitBegin ==
    /\ sp_pc = "start"
    /\ ~(text = <<>> \/ Len(text) <= chunk_size)
    /\ chunks' = <<>>
    /\ current_chunk' = <<>>
    /\ splits' = <<text>>
    /\ sep_idx' = 1
    /\ sp_pc' = "cascade"
    /\ UNCHANGED <<text, chunk_size, chunk_overlap, split_idx, sp_raised, sp_result>>

\* document_processor.py:64-71  one pass of "for separator in self.separators"
SplitCascadeStep ==
    /\ sp_pc = "cascade"
    /\ sep_idx <= Len(separators)
    /\ LET r == ApplySeparator(splits, separators[sep_idx], chunk_size)
       IN  /\ ~r.raised
           /\ splits' = r.splits
    /\ sep_idx' = sep_idx + 1
    /\ split_idx' = 1
    /\ sp_pc' = IF sep_idx = Len(separators) THEN "combine" ELSE "cascade"
    /\ UNCHANGED <<text, chunk_size, chunk_overlap, current_chunk, chunks,
                   sp_raised, sp_result>>

\* document_processor.py:68  split.split("") raises ValueError out of split_text
SplitCascadeRaise ==
    /\ sp_pc = "cascade"
    /\ sep_idx <= Len(separators)
    /\ ApplySeparator(splits, separators[sep_idx], chunk_size).raised
    /\ sp_raised' = TRUE
    /\ sp_pc' = "done"
    /\ UNCHANGED <<text, chunk_size, chunk_overlap, sep_idx, splits, split_idx,
                   current_chunk, chunks, sp_result>>

\* document_processor.py:74-86  one pass of "for split in splits"
SplitCombineStep ==
    /\ sp_pc = "combine"
    /\ split_idx <= Len(splits)
    /\ LET r == CombineOne(current_chunk, chunks, splits[split_idx],
                           chunk_size, chunk_overlap)
       IN  /\ current_chunk' = r.current_chunk
           /\ chunks' = r.chunks
    /\ split_idx' = split_idx + 1
    /\ UNCHANGED <<sp_pc, text, chunk_size, chunk_overlap, sep_idx, splits,
                   sp_raised, sp_result>>

\* document_processor.py:88-93
SplitFinish ==
    /\ sp_pc = "combine"
    /\ split_idx > Len(splits)
    /\ sp_result' = FinishChunks(current_chunk, chunks)
    /\ sp_pc' = "done"
    /\ UNCHANGED <<text, chunk_size, chunk_overlap, sep_idx, splits, split_idx,
                   current_chunk, chunks, sp_raised>>

(***************************************************************************)
(* SharePointClient.get_documents                                          *)
(*                                                                         *)
(* Times are whole hours before the call: an item modified 6 hours ago has *)
(* age 6, and since_date = now - h keeps the items with age at most h.     *)
(***************************************************************************)
\* longest library listing
MaxItems == 3

\* since_date is None
NoSince == -1

\* the kinds of entry a library listing may hold: files with their
\* extension and age, a file whose Modified value cannot be parsed or
\* compared, a file without extension, and a folder
LibraryEntries ==
    { [name |-> "new.pdf",  ext |-> ".pdf",  folder |-> FALSE, date_ok |-> TRUE,  age |-> 1],
      [name |-> "old.pdf",  ext |-> ".pdf",  folder |-> FALSE, date_ok |-> TRUE,  age |-> 100],
      [name |-> "odd.docx", ext |-> ".docx", folder |-> FALSE, date_ok |-> FALSE, age |-> 100],
      [name |-> "README",   ext |-> "",      folder |-> FALSE, date_ok |-> TRUE,  age |-> 1],
      [name |-> "Archive",  ext |-> "",      folder |-> TRUE,  date_ok |-> TRUE,  age |-> 1] }

Listings == UNION {[1 .. n -> LibraryEntries] : n \in 0 .. MaxItems}

\* values of the file_types argument; {} stands for None and for []
FileTypeFilters == { {}, {".pdf"}, {".pdf", ".docx"} }
\* values of since_date as hours back (streamlit_app.py:434: default 24)
SinceInputs == {NoSince, 24}
\* values of max_docs; 0 stands for None
MaxDocsInputs == {0, 1, 2}

DocInfo(name, ext, age, source) ==
    [filename |-> name, ext |-> ext, age |-> age, source |-> source]

\* sharepoint_client.py:320-403  the five mock documents
MockDocuments ==
    << DocInfo("Team Meeting Notes.docx", ".docx", 0, "mock_data"),
       DocInfo("Skills Training Manual.pdf", ".pdf", 6, "mock_data"),
       DocInfo("Volunteer Handbook 2024.pdf", ".pdf", 72, "mock_data"),
       DocInfo("Monthly Report March 2024.xlsx", ".xlsx", 18, "mock_data"),
       DocInfo("Safety Guidelines Update.docx", ".docx", 4, "mock_data") >>

VARIABLES
    ft_pc,            \* position inside get_documents
    sp_available,     \* OFFICE365_AVAILABLE and self.ctx
    fetch_fault,      \* "none", "library" (the library cannot be loaded) or
                      \* "outer" (a statement of the outer try raises)
    lib_items,        \* the listing the library returns
    file_types,
    since_date,
    max_docs,
    item_idx,         \* index of the next item of the listing
    documents,        \* the list being built
    processed_count,
    ft_result         \* the returned list

ftVars == <<ft_pc, sp_available, fetch_fault, lib_items, file_types, since_date,
            max_docs, item_idx, documents, processed_count, ft_result>>

FetchIdle ==
    /\ ft_pc = "idle"
    /\ sp_available = TRUE
    /\ fetch_fault = "none"
    /\ lib_items = <<>>
    /\ file_types = {}
    /\ since_date = NoSince
    /\ max_docs = 0
    /\ item_idx = 1
    /\ documents = <<>>
    /\ processed_count = 0
    /\ ft_result = <<>>

FetchInit ==
    /\ ft_pc = "start"
    /\ sp_available \in BOOLEAN
    /\ fetch_fault \in {"none", "library", "outer"}
    /\ lib_items \in Listings
    /\ file_types \in FileTypeFilters
    /\ since_date \in SinceInputs
    /\ max_docs \in MaxDocsInputs
    /\ item_idx = 1
    /\ documents = <<>>
    /\ processed_count = 0
    /\ ft_result = <<>>

\* sharepoint_client.py:452-459  the entry is a folder or its extension is
\* not among file_types
SkippedByType(item, types) ==
    \/ item.folder
    \/ (types # {} /\ item.ext \notin types)

\* sharepoint_client.py:468-478  the entry is older than since_date; an
\* entry whose date cannot be parsed or compared is kept
SkippedByDate(item, since) ==
    /\ since # NoSince
    /\ item.date_ok
    /\ item.age > since

\* sharepoint_client.py:412-414  no client: the mock documents, as they are
FetchUnavailable ==
    /\ ft_pc = "start"
    /\ ~sp_available
    /\ ft_result' = MockDocuments
    /\ ft_pc' = "done"
    /\ UNCHANGED <<sp_available, fetch_fault, lib_items, file_types, since_date,
                   max_docs, item_idx, documents, processed_count>>

\* sharepoint_client.py:429-439 and 518-521  the library cannot be loaded, or
\* another statement of the outer try raises: the mock documents, as they are
FetchFallback ==
    /\ ft_pc = "start"
    /\ sp_available
    /\ fetch_fault # "none"
    /\ ft_result' = MockDocuments
    /\ ft_pc' = "done"
    /\ UNCHANGED <<sp_available, fetch_fault, lib_items, file_types, since_date,
                   max_docs, item_idx, documents, processed_count>>

\* sharepoint_client.py:416-443  the library is loaded and the loop entered
FetchBegin ==
    /\ ft_pc = "start"
    /\ sp_available
    /\ fetch_fault = "none"
    /\ documents' = <<>>
    /\ processed_count' = 0
    /\ item_idx' = 1
    /\ ft_pc' = "loop"
    /\ UNCHANGED <<sp_available, fetch_fault, lib_items, file_types, since_date,
                   max_docs, ft_result>>

\* sharepoint_client.py:445-478  "continue": the entry is left out
FetchSkipItem ==
    /\ ft_pc = "loop"
    /\ item_idx <= Len(lib_items)
    /\ \/ SkippedByType(lib_items[item_idx], file_types)
       \/ SkippedByDate(lib_items[item_idx], since_date)
    /\ item_idx' = item_idx + 1
    /\ UNCHANGED <<ft_pc, sp_available, fetch_fault, lib_items, file_types,
                   since_date, max_docs, documents, processed_count, ft_result>>

\* sharepoint_client.py:480-510  the entry is appended; the loop is left when
\* max_docs is reached
FetchTakeItem ==
    /\ ft_pc = "loop"
    /\ item_idx <= Len(lib_items)
    /\ ~SkippedByType(lib_items[item_idx], file_types)
    /\ ~SkippedByDate(lib_items[item_idx], since_date)
    /\ LET item == lib_items[item_idx]
       IN  documents' = Append(documents,
                               DocInfo(item.name, item.ext, item.age, "sharepoint_live"))
    /\ processed_count' = processed_count + 1
    /\ item_idx' = IF max_docs # 0 /\ processed_count + 1 >= max_docs
                   THEN Len(lib_items) + 1
                   ELSE item_idx + 1
    /\ UNCHANGED <<ft_pc, sp_available, fetch_fault, lib_items, file_types,
                   since_date, max_docs, ft_result>>

\* sharepoint_client.py:515-516
FetchReturn ==
    /\ ft_pc = "loop"
    /\ item_idx > Len(lib_items)
    /\ ft_result' = documents
    /\ ft_pc' = "done"
    /\ UNCHANGED <<sp_available, fetch_fault, lib_items, file_types, since_date,
                   max_docs, item_idx, documents, processed_count>>

(***************************************************************************)
(* process_sharepoint_documents, run from Streamlit sessions               *)
(*                                                                         *)
(* Streamlit runs the script of every browser session in a thread of its   *)
(* own.  The objects returned by initialize_services are cached with       *)
(* st.cache_resource, so all sessions share one AstraClient, one           *)
(* SharePointClient and one DocumentProcessor; st.session_state is private *)
(* to a session.  Pressing the process button of a session calls           *)
(* process_sharepoint_documents in that session's thread.                  *)
(***************************************************************************)
Sessions == {"s1", "s2"}

\* sync runs started in one behaviour, all sessions together
MaxRuns == 2
\* the items the SharePoint library may hold, in listing order
Items == <<"A.txt", "B.txt", "C.txt">>

\* values of the "Chunk Size" input (streamlit_app.py:304-310: 100 .. 2000)
ChunkSizeInputs == {100, 1000}
\* values of the "Chunk Overlap" input (streamlit_app.py:313-319: 0 .. 500)
ChunkOverlapInputs == {0, 200}
\* values of the "Batch Size" input (streamlit_app.py:322-328: 1 .. 50)
BatchSizeInputs == {1, 2}

\* last value of the clock datetime.now() reads
MaxClock == 2
\* st.session_state.last_sync_time is None
NoTime == -1

VARIABLES
    library,             \* number of Items in the SharePoint library; the items
                         \* keep their name, modification time, length and path
    dp_chunk_size,       \* document_processor.chunk_size   (shared)
    dp_chunk_overlap,    \* document_processor.chunk_overlap (shared)
    stored,              \* item -> records of it the store accepted (shared)
    runs_started,        \* history: number of runs started
    run_pc,              \* session -> position of its run
    run_args,            \* session -> chunk_size, chunk_overlap, batch_size
    raw_docs,            \* session -> fetched documents
    doc_idx,             \* session -> index of the next doc_info
    processed_docs,      \* session -> documents waiting for insertion
    processing_results,  \* session -> results of the insert_documents calls
    processing_status,   \* session -> st.session_state.processing_status
    document_count,      \* session -> st.session_state.document_count
    run_records,         \* history: session -> records its last run appended
    submitted,           \* history: session -> item -> times the session passed
                         \* it to insert_documents
    source_reachable,    \* the SharePoint client has a context and the library
                         \* can be loaded
    now,                 \* the clock datetime.now() reads
    start_time,          \* session -> start_time of its last run
    last_sync_time,      \* session -> st.session_state.last_sync_time
    run_built,           \* history: session -> documents its last run built
    run_calls            \* history: session -> the insert_documents calls of
                         \* its last run: the list passed and the batch_size
                         \* in force

syVars == <<library, dp_chunk_size, dp_chunk_overlap, stored,
            runs_started, run_pc, run_args, raw_docs, doc_idx, processed_docs,
            processing_results, processing_status, document_count,
            run_records, submitted, source_reachable, now, start_time,
            last_sync_time, run_built, run_calls>>

\* names of the files a user may upload
UploadNames == {"good.pdf", "scan.pdf", "broken.pdf", "tool.exe", "notes.rtf"}

ItemSet == {Items[i] : i \in 1 .. Len(Items)}
              \cup {MockDocuments[i].filename : i \in 1 .. Len(MockDocuments)}
              \cup UploadNames

\* number of positions of seq holding x
Occurrences(seq, x) == Cardinality({i \in 1 .. Len(seq) : seq[i] = x})

\* the counts of c raised by the documents of docs
CountAdd(c, docs) == [d \in ItemSet |-> c[d] + Occurrences(docs, [filename |-> d])]

NoArgs == [chunk_size |-> 1000, chunk_overlap |-> 200, batch_size |-> 10]

SyncFixed ==
    \* document_processor.py:113  DocumentProcessor() defaults
    /\ dp_chunk_size = 1000
    /\ dp_chunk_overlap = 200
    /\ stored = [d \in ItemSet |-> 0]
    /\ runs_started = 0
    /\ run_pc = [s \in Sessions |-> "idle"]
    /\ run_args = [s \in Sessions |-> NoArgs]
    /\ raw_docs = [s \in Sessions |-> <<>>]
    /\ doc_idx = [s \in Sessions |-> 1]
    /\ processed_docs = [s \in Sessions |-> <<>>]
    /\ processing_results = [s \in Sessions |-> <<>>]
    \* streamlit_app.py:95-109  init_session_state
    /\ processing_status = [s \in Sessions |-> <<>>]
    /\ document_count = [s \in Sessions |-> 0]
    /\ run_records = [s \in Sessions |-> 0]
    /\ submitted = [s \in Sessions |-> [d \in ItemSet |-> 0]]
    /\ now = 0
    /\ start_time = [s \in Sessions |-> NoTime]
    /\ last_sync_time = [s \in Sessions |-> NoTime]
    /\ run_built = [s \in Sessions |-> <<>>]
    /\ run_calls = [s \in Sessions |-> <<>>]

SyncIdle == library = 0 /\ source_reachable = TRUE /\ SyncFixed

SyncInit == library \in 0 .. Len(Items) /\ source_reachable = TRUE /\ SyncFixed

\* the source may be unreachable
OutageInit == library \in 0 .. Len(Items) /\ source_reachable \in BOOLEAN /\ SyncFixed

\* sharepoint_client.py:412-414, 437-439, 441-516  the live listing, one
\* doc_info per library item in library order, or the mock documents when
\* the source cannot be reached
GetDocuments ==
    IF source_reachable
    THEN [i \in 1 .. library |-> [filename |-> Items[i]]]
    ELSE [i \in 1 .. Len(MockDocuments) |-> [filename |-> MockDocuments[i].filename]]

\* astra_client.py:122-204 for a list of at most batch_size documents whose
\* preparation succeeds: one batch, accepted or refused as a whole
InsertDocuments(docs, coll, storeOk) ==
    IF ~coll THEN [successful |-> 0, failed |-> Len(docs), total |-> Len(docs)]
    ELSE IF docs # <<>> /\ storeOk
         THEN [successful |-> Len(docs), failed |-> 0, total |-> Len(docs)]
         ELSE [successful |-> 0, failed |-> IF docs = <<>> THEN 0 ELSE Len(docs),
               total |-> Len(docs)]

\* what the store holds after insert_documents(docs)
StoredAfter(docs, coll, storeOk) ==
    IF coll /\ storeOk THEN CountAdd(stored, docs) ELSE stored

StatusRecord(name, status) ==
    [filename |-> name, status |-> status, source |-> "sharepoint"]

\* streamlit_app.py:476, 504  one call insert_documents(docs), made while
\* the batch size is limit
InsertCallOf(docs, limit) == [docs |-> docs, limit |-> limit]

RECURSIVE SumField(_, _)
\* sum(result.get(field, 0) for result in results)
SumField(results, field) ==
    IF results = <<>> THEN 0
    ELSE Head(results)[field] + SumField(Tail(results), field)

\* streamlit_app.py:331-335, 420-451  the button of session s is pressed: the
\* shared processor settings are overwritten and the documents fetched; with
\* no document the run returns at once
StartRun(s, cs, co, bs) ==
    /\ run_pc[s] \in {"idle", "ended"}
    /\ runs_started < MaxRuns
    /\ runs_started' = runs_started + 1
    /\ dp_chunk_size' = cs
    /\ dp_chunk_overlap' = co
    /\ IF GetDocuments = <<>>
       THEN /\ run_args' = [run_args EXCEPT ![s] = NoArgs]
            /\ raw_docs' = [raw_docs EXCEPT ![s] = <<>>]
            /\ run_pc' = [run_pc EXCEPT ![s] = "ended"]
       ELSE /\ run_args' = [run_args EXCEPT ![s] =
                   [chunk_size |-> cs, chunk_overlap |-> co, batch_size |-> bs]]
            /\ raw_docs' = [raw_docs EXCEPT ![s] = GetDocuments]
            /\ run_pc' = [run_pc EXCEPT ![s] = "loop"]
    /\ doc_idx' = [doc_idx EXCEPT ![s] = 1]
    /\ processed_docs' = [processed_docs EXCEPT ![s] = <<>>]
    /\ processing_results' = [processing_results EXCEPT ![s] = <<>>]
    /\ run_records' = [run_records EXCEPT ![s] = 0]
    /\ start_time' = [start_time EXCEPT ![s] = now]
    /\ run_built' = [run_built EXCEPT ![s] = <<>>]
    /\ run_calls' = [run_calls EXCEPT ![s] = <<>>]
    /\ UNCHANGED <<library, stored, processing_status, document_count,
                   submitted, source_reachable, now, last_sync_time>>

\* streamlit_app.py:426-451, 529-537  a call made before the document loop
\* raises: the outer handler appends the critical-error record
StartRunRaises(s, cs, co, bs) ==
    /\ run_pc[s] \in {"idle", "ended"}
    /\ runs_started < MaxRuns
    /\ runs_started' = runs_started + 1
    /\ run_args' = [run_args EXCEPT ![s] = NoArgs]
    /\ dp_chunk_size' = cs
    /\ dp_chunk_overlap' = co
    /\ raw_docs' = [raw_docs EXCEPT ![s] = <<>>]
    /\ doc_idx' = [doc_idx EXCEPT ![s] = 1]
    /\ processed_docs' = [processed_docs EXCEPT ![s] = <<>>]
    /\ processing_results' = [processing_results EXCEPT ![s] = <<>>]
    /\ processing_status' = [processing_status EXCEPT ![s] =
                                Append(@, StatusRecord("SharePoint Sync", "Critical Error"))]
    /\ run_records' = [run_records EXCEPT ![s] = 1]
    /\ run_pc' = [run_pc EXCEPT ![s] = "ended"]
    /\ start_time' = [start_time EXCEPT ![s] = now]
    /\ run_built' = [run_built EXCEPT ![s] = <<>>]
    /\ run_calls' = [run_calls EXCEPT ![s] = <<>>]
    /\ UNCHANGED <<library, stored, document_count, submitted,
                   source_reachable, now, last_sync_time>>

\* streamlit_app.py:458-491  one doc_info: the Document is built and queued,
\* a full batch is passed to insert_documents, a Success record is appended
ProcessDoc(s, storeOk) ==
    /\ run_pc[s] = "loop"
    /\ doc_idx[s] <= Len(raw_docs[s])
    /\ LET doc == raw_docs[s][doc_idx[s]]
           queued == Append(processed_docs[s], doc)
           full == Len(queued) >= run_args[s].batch_size
       IN  /\ processed_docs' = [processed_docs EXCEPT ![s] = IF full THEN <<>> ELSE queued]
           /\ processing_results' = [processing_results EXCEPT ![s] =
                 IF full THEN Append(@, InsertDocuments(queued, collection, storeOk)) ELSE @]
           /\ stored' = IF full THEN StoredAfter(queued, collection, storeOk) ELSE stored
           /\ submitted' = [submitted EXCEPT ![s] = IF full THEN CountAdd(@, queued) ELSE @]
           /\ run_built' = [run_built EXCEPT ![s] = Append(@, doc)]
           /\ run_calls' = [run_calls EXCEPT ![s] =
                 IF full THEN Append(@, InsertCallOf(queued, run_args[s].batch_size)) ELSE @]
           /\ (full \/ storeOk)
           /\ processing_status' = [processing_status EXCEPT ![s] =
                 Append(@, StatusRecord(doc.filename, "Success"))]
    /\ run_records' = [run_records EXCEPT ![s] = @ + 1]
    /\ doc_idx' = [doc_idx EXCEPT ![s] = @ + 1]
    /\ UNCHANGED <<library, dp_chunk_size, dp_chunk_overlap, runs_started,
                   run_pc, run_args, raw_docs, document_count,
                   source_reachable, now, start_time, last_sync_time>>

\* streamlit_app.py:459-471, 493-500  building the Document raises: an Error
\* record is appended and the loop goes on
ProcessDocRaises(s) ==
    /\ run_pc[s] = "loop"
    /\ doc_idx[s] <= Len(raw_docs[s])
    /\ processing_status' = [processing_status EXCEPT ![s] =
          Append(@, StatusRecord(raw_docs[s][doc_idx[s]].filename, "Error"))]
    /\ run_records' = [run_records EXCEPT ![s] = @ + 1]
    /\ doc_idx' = [doc_idx EXCEPT ![s] = @ + 1]
    /\ UNCHANGED <<library, dp_chunk_size, dp_chunk_overlap, stored,
                   runs_started, run_pc, run_args, raw_docs, processed_docs,
                   processing_results, document_count, submitted,
                   source_reachable, now, start_time, last_sync_time,
                   run_built, run_calls>>

\* the documents left over after the loop are not inserted
FinishRun_noflush(s, storeOk) ==
    /\ run_pc[s] = "loop"
    /\ doc_idx[s] > Len(raw_docs[s])
    /\ LET rest == <<>>
           results == IF rest # <<>>
                      THEN Append(processing_results[s],
                                  InsertDocuments(rest, collection, storeOk))
                      ELSE processing_results[s]
       IN  /\ processing_results' = [processing_results EXCEPT ![s] = <<>>]
           /\ stored' = IF rest # <<>> THEN StoredAfter(rest, collection, storeOk) ELSE stored
           /\ submitted' = [submitted EXCEPT ![s] = CountAdd(@, rest)]
           /\ run_calls' = [run_calls EXCEPT ![s] =
                 IF rest # <<>> THEN Append(@, InsertCallOf(rest, run_args[s].batch_size))
                 ELSE @]
           /\ (rest # <<>> \/ storeOk)
           /\ document_count' = [document_count EXCEPT ![s] =
                 @ + SumField(results, "successful")]
    \* the call returns: its locals are gone
    /\ run_args' = [run_args EXCEPT ![s] = NoArgs]
    /\ raw_docs' = [raw_docs EXCEPT ![s] = <<>>]
    /\ doc_idx' = [doc_idx EXCEPT ![s] = 1]
    /\ processed_docs' = [processed_docs EXCEPT ![s] = <<>>]
    /\ run_pc' = [run_pc EXCEPT ![s] = "ended"]
    \* streamlit_app.py:514
    /\ last_sync_time' = [last_sync_time EXCEPT ![s] = now]
    /\ UNCHANGED <<library, dp_chunk_size, dp_chunk_overlap, runs_started,
                   processing_status, run_records, source_reachable, now,
                   start_time, run_built>>

\* streamlit_app.py:502-527  the remaining documents are inserted, the
\* results summed and the session counters updated
FinishRun(s, storeOk) ==
    /\ run_pc[s] = "loop"
    /\ doc_idx[s] > Len(raw_docs[s])
    /\ LET rest == processed_docs[s]
           results == IF rest # <<>>
                      THEN Append(processing_results[s],
                                  InsertDocuments(rest, collection, storeOk))
                      ELSE processing_results[s]
       IN  /\ processing_results' = [processing_results EXCEPT ![s] = <<>>]
           /\ stored' = IF rest # <<>> THEN StoredAfter(rest, collection, storeOk) ELSE stored
           /\ submitted' = [submitted EXCEPT ![s] = CountAdd(@, rest)]
           /\ run_calls' = [run_calls EXCEPT ![s] =
                 IF rest # <<>> THEN Append(@, InsertCallOf(rest, run_args[s].batch_size))
                 ELSE @]
           /\ (rest # <<>> \/ storeOk)
           /\ document_count' = [document_count EXCEPT ![s] =
                 @ + SumField(results, "successful")]
    \* the call returns: its locals are gone
    /\ run_args' = [run_args EXCEPT ![s] = NoArgs]
    /\ raw_docs' = [raw_docs EXCEPT ![s] = <<>>]
    /\ doc_idx' = [doc_idx EXCEPT ![s] = 1]
    /\ processed_docs' = [processed_docs EXCEPT ![s] = <<>>]
    /\ run_pc' = [run_pc EXCEPT ![s] = "ended"]
    \* streamlit_app.py:514
    /\ last_sync_time' = [last_sync_time EXCEPT ![s] = now]
    /\ UNCHANGED <<library, dp_chunk_size, dp_chunk_overlap, runs_started,
                   processing_status, run_records, source_reachable, now,
                   start_time, run_built>>

\* time passes
Tick ==
    /\ now < MaxClock
    /\ now' = now + 1
    /\ UNCHANGED <<library, dp_chunk_size, dp_chunk_overlap, stored,
                   runs_started, run_pc, run_args, raw_docs, doc_idx,
                   processed_docs, processing_results, processing_status,
                   document_count, run_records, submitted, source_reachable,
                   start_time, last_sync_time, run_built, run_calls>>

\* streamlit_app.py:416-418  the "Clear Status" button of session s
ClearStatus(s) ==
    /\ run_pc[s] \in {"idle", "ended"}
    /\ processing_status[s] # <<>>
    /\ processing_status' = [processing_status EXCEPT ![s] = <<>>]
    /\ UNCHANGED <<library, dp_chunk_size, dp_chunk_overlap, stored,
                   runs_started, run_pc, run_args, raw_docs, doc_idx,
                   processed_docs, processing_results, document_count,
                   run_records, submitted, source_reachable, now, start_time,
                   last_sync_time, run_built, run_calls>>

(***************************************************************************)
(* DocumentProcessor._extract_text_by_type                                 *)
(*                                                                         *)
(* A text is a sequence of characters.  The content of a txt, md, html or  *)
(* unrecognised file is a sequence of bytes; "X" is a byte that is not     *)
(* valid UTF-8 (0xFF).  The content of a file read through a library (pdf, *)
(* docx, csv, json, xml, pptx, xlsx) is what the library makes of it: ok   *)
(* tells whether the library can open it, the other fields are the         *)
(* structure it yields.                                                    *)
(***************************************************************************)
\* longest byte content
MaxBytes == 3
\* most pages, paragraphs, cells, slides, shapes or sheets of a content
MaxParts == 2

TextBytes == {"a", " ", "\n", "#", "X"}
HtmlBytes == {"a", " ", "<", ">"}

ByteContents(alphabet) == UNION {[1 .. n -> alphabet] : n \in 0 .. MaxBytes}

\* the strings a library hands over for a page, paragraph, cell or shape
PartStrings == {<<>>, <<" ">>, <<"a">>, <<"b">>}
\* page.extract_text() raises
PageError == <<"error">>

PartSeqs(parts) == UNION {[1 .. n -> parts] : n \in 0 .. MaxParts}

RECURSIVE Join(_, _)
\* sep.join(ss)
Join(ss, sep) ==
    IF ss = <<>> THEN <<>>
    ELSE IF Len(ss) = 1 THEN ss[1]
    ELSE ss[1] \o sep \o Join(Tail(ss), sep)

RECURSIVE Flatten(_)
\* the concatenation of the sequences of ss
Flatten(ss) == IF ss = <<>> THEN <<>> ELSE Head(ss) \o Flatten(Tail(ss))

\* content.decode('utf-8', errors='ignore'): invalid bytes are dropped
DecodeIgnore(bytes) == SelectSeq(bytes, LAMBDA b : b # "X")

Raised == [raised |-> TRUE, text |-> <<>>]
Text(t) == [raised |-> FALSE, text |-> t]

\* a page that raises makes the whole extraction fail
ExtractPdfText_abort(content) ==
    IF ~content.ok \/ \E i \in 1 .. Len(content.pages) : content.pages[i] = PageError
    THEN Raised
    ELSE Text(Strip(Flatten([i \in 1 .. Len(content.pages) |->
                 IF content.pages[i] = <<>> THEN <<>>
                 ELSE content.pages[i] \o <<"\n">>])))

\* document_processor.py:235-253  the text of every page that yields one,
\* each followed by a newline; a page that raises is passed over
ExtractPdfText(content) ==
    IF ~content.ok THEN Raised
    ELSE Text(Strip(Flatten([i \in 1 .. Len(content.pages) |->
                 IF content.pages[i] = PageError \/ content.pages[i] = <<>>
                 THEN <<>>
                 ELSE content.pages[i] \o <<"\n">>])))

\* document_processor.py:269-276  the non-blank cells of a row, stripped and
\* joined with " | "; a row without any contributes nothing
RowText(row) ==
    LET cells == SelectSeq(row, LAMBDA c : Strip(c) # <<>>)
        stripped == [i \in 1 .. Len(cells) |-> Strip(cells[i])]
    IN  IF stripped = <<>> THEN <<>>
        ELSE Join(stripped, <<" ", "|", " ">>) \o <<"\n">>

\* document_processor.py:255-281
ExtractDocxText(content) ==
    IF ~content.ok THEN Raised
    ELSE Text(Strip(
            Flatten([i \in 1 .. Len(content.paragraphs) |->
                 IF Strip(content.paragraphs[i]) # <<>>
                 THEN content.paragraphs[i] \o <<"\n">>
                 ELSE <<>>])
            \o Flatten([i \in 1 .. Len(content.rows) |-> RowText(content.rows[i])])))

\* document_processor.py:283-297  the first of utf-8, utf-16, latin-1 that
\* decodes the bytes: utf-8 refuses an invalid byte, utf-16 reads two bytes
\* as one character (written "w") and refuses an odd number of bytes, latin-1 reads
\* every byte as one character (0xFF as "y")
ExtractTxtText(bytes) ==
    IF \A i \in 1 .. Len(bytes) : bytes[i] # "X" THEN Text(bytes)
    ELSE IF Len(bytes) % 2 = 0
         THEN Text([i \in 1 .. Len(bytes) \div 2 |->
                      \* 0x0A 0x20 is U+200A, a space; no other pair is blank
                      IF bytes[2 * i - 1] = "\n" /\ bytes[2 * i] = " " THEN " " ELSE "w"])
    ELSE Text([i \in 1 .. Len(bytes) |-> IF bytes[i] = "X" THEN "y" ELSE bytes[i]])

RECURSIVE RunLength(_, _, _)
\* number of consecutive characters of s from position i that are in set
RunLength(s, i, set) ==
    IF i > Len(s) \/ s[i] \notin set THEN 0 ELSE 1 + RunLength(s, i + 1, set)

RECURSIVE RemoveHeaders(_, _)
\* re.sub(r'^#+\s+', '', text, flags=re.MULTILINE), scanning from position i
RemoveHeaders(s, i) ==
    IF i > Len(s) THEN <<>>
    ELSE LET hashes == RunLength(s, i, {"#"})
             blanks == RunLength(s, i + hashes, Whitespace)
         IN  IF (i = 1 \/ s[i - 1] = "\n") /\ hashes > 0 /\ blanks > 0
             THEN RemoveHeaders(s, i + hashes + blanks)
             ELSE <<s[i]>> \o RemoveHeaders(s, i + 1)

\* document_processor.py:299-319  the bytes of TextBytes hold no '*', '[' or
\* '`', so only the header pattern can match
ExtractMarkdownText(bytes) == Text(Strip(RemoveHeaders(DecodeIgnore(bytes), 1)))

RECURSIVE RemoveTags(_, _)
\* re.sub(r'<[^>]+>', '', html_content), scanning from position i
RemoveTags(s, i) ==
    IF i > Len(s) THEN <<>>
    ELSE LET inner == RunLength(s, i + 1, HtmlBytes \ {">"})
         IN  IF s[i] = "<" /\ inner > 0 /\ i + inner + 1 <= Len(s)
             THEN RemoveTags(s, i + inner + 2)
             ELSE <<s[i]>> \o RemoveTags(s, i + 1)

\* document_processor.py:321-339  with BeautifulSoup the text nodes it finds,
\* stripped, the empty ones left out, joined by newlines; without it the
\* tags are cut out of the decoded bytes
ExtractHtmlText(content, bs4) ==
    IF bs4
    THEN LET stripped == [i \in 1 .. Len(content.nodes) |-> Strip(content.nodes[i])]
         IN  Text(Join(SelectSeq(stripped, LAMBDA n : n # <<>>), <<"\n">>))
    ELSE Text(Strip(RemoveTags(DecodeIgnore(content.bytes), 1)))

\* document_processor.py:341-352  df.to_string(index=False)
ExtractCsvText(content) == IF ~content.ok THEN Raised ELSE Text(content.rendering)

JStr(str) == [kind |-> "str", str |-> str, items |-> <<>>]
JDict(items) == [kind |-> "dict", str |-> <<>>, items |-> items]
JList(items) == [kind |-> "list", str |-> <<>>, items |-> items]
JItem(key, value) == [key |-> key, value |-> value]

\* the values json.loads may return; the key of a list item is its index
JsonValues ==
    { JStr(<<>>), JStr(<<"a">>), JDict(<<>>), JList(<<>>),
      JDict(<<JItem(<<"k">>, JStr(<<"a">>))>>),
      JDict(<<JItem(<<"k">>, JList(<<>>))>>),
      JList(<<JItem(<<"0">>, JStr(<<>>))>>),
      JList(<<JItem(<<"0">>, JDict(<<>>))>>) }

RECURSIVE ExtractValues(_, _)
\* document_processor.py:361-377  extract_values
ExtractValues(obj, prefix) ==
    IF obj.kind = "dict"
    THEN Flatten([i \in 1 .. Len(obj.items) |->
            LET key == obj.items[i].key
                value == obj.items[i].value
            IN  IF value.kind \in {"dict", "list"}
                THEN ExtractValues(value, prefix \o key \o <<":", " ">>)
                ELSE << prefix \o key \o <<":", " ">> \o value.str >>])
    ELSE IF obj.kind = "list"
    THEN Flatten([i \in 1 .. Len(obj.items) |->
            LET key == <<"[">> \o obj.items[i].key \o <<"]">>
                value == obj.items[i].value
            IN  IF value.kind \in {"dict", "list"}
                THEN ExtractValues(value, prefix \o key \o <<" ">>)
                ELSE << prefix \o key \o <<":", " ">> \o value.str >>])
    ELSE << prefix \o obj.str >>

\* document_processor.py:354-383
ExtractJsonText(content) ==
    IF ~content.ok THEN Raised
    ELSE Text(Join(ExtractValues(content.data, <<>>), <<"\n">>))

Element(txt, children, tail) == [text |-> txt, children |-> children, tail |-> tail]

\* the trees ET.fromstring may return: <r/>, <r> </r>, <r>a</r>,
\* <r><c/> </r>, <r><c>a</c></r>
XmlTrees ==
    { Element(<<>>, <<>>, <<>>),
      Element(<<" ">>, <<>>, <<>>),
      Element(<<"a">>, <<>>, <<>>),
      Element(<<>>, <<Element(<<>>, <<>>, <<" ">>)>>, <<>>),
      Element(<<>>, <<Element(<<"a">>, <<>>, <<>>)>>, <<>>) }

RECURSIVE ExtractElementText(_)
\* document_processor.py:392-400  extract_text
ExtractElementText(element) ==
    (IF element.text # <<>> THEN <<Strip(element.text)>> ELSE <<>>)
    \o Flatten([i \in 1 .. Len(element.children) |->
                   ExtractElementText(element.children[i])])
    \o (IF element.tail # <<>> THEN <<Strip(element.tail)>> ELSE <<>>)

\* document_processor.py:385-406
ExtractXmlText(content) ==
    IF ~content.ok THEN Raised
    ELSE Text(Join(SelectSeq(ExtractElementText(content.root), LAMBDA t : t # <<>>),
                   <<"\n">>))

\* document_processor.py:408-427  "Slide n:" is written "S:"
ExtractPptxText(content) ==
    IF ~content.ok THEN Raised
    ELSE Text(Strip(Flatten([n \in 1 .. Len(content.slides) |->
                 <<"S", ":", "\n">>
                 \o Flatten([k \in 1 .. Len(content.slides[n]) |->
                        IF content.slides[n][k] # <<>>
                        THEN content.slides[n][k] \o <<"\n">>
                        ELSE <<>>])
                 \o <<"\n">>])))

\* document_processor.py:429-445  "Sheet: name" is written "S:"
ExtractXlsxText(content) ==
    IF ~content.ok THEN Raised
    ELSE Text(Strip(Flatten([n \in 1 .. Len(content.sheets) |->
                 <<"S", ":", "\n">> \o content.sheets[n] \o <<"\n", "\n">>])))

\* document_processor.py:230-231  content.decode('utf-8', errors='ignore')
ExtractFallback(bytes) == Text(DecodeIgnore(bytes))

\* the contents a file of each type may have
PdfContents == [ok : BOOLEAN, pages : PartSeqs(PartStrings \cup {PageError})]
DocxContents ==
    [ok : BOOLEAN, paragraphs : PartSeqs(PartStrings),
     rows : {<<>>} \cup {<<cells>> : cells \in PartSeqs(PartStrings)}]
HtmlContents == [bytes : ByteContents(HtmlBytes), nodes : PartSeqs(PartStrings)]
CsvContents == [ok : BOOLEAN, rendering : {<<"a">>}]
JsonContents == [ok : BOOLEAN, data : JsonValues]
XmlContents == [ok : BOOLEAN, root : XmlTrees]
PptxContents ==
    [ok : BOOLEAN, slides : PartSeqs(PartSeqs(PartStrings)),
     bytes : ByteContents({"a", "X"})]
XlsxContents ==
    [ok : BOOLEAN, sheets : PartSeqs({<<"a">>}) \ {<<>>}]

\* file types that are read as bytes
ByteTypes == {"txt", "md", "rtf"}

VARIABLES
    ex_pc,            \* position inside _extract_text_by_type
    ex_file_type,     \* the file_type argument
    ex_content,       \* the content argument
    bs4_available,    \* BS4_AVAILABLE
    pptx_available,   \* PPTX_AVAILABLE
    ex_result         \* raised, or the text returned

exVars == <<ex_pc, ex_file_type, ex_content, bs4_available, pptx_available,
            ex_result>>

ExtractIdle ==
    /\ ex_pc = "idle"
    /\ ex_file_type = "txt"
    /\ ex_content = <<>>
    /\ bs4_available = TRUE
    /\ pptx_available = TRUE
    /\ ex_result = Raised

ExtractInit ==
    /\ ex_pc = "start"
    /\ bs4_available \in BOOLEAN
    /\ pptx_available \in BOOLEAN
    /\ ex_result = Raised
    /\ \/ ex_file_type = "pdf" /\ ex_content \in PdfContents
       \/ ex_file_type = "docx" /\ ex_content \in DocxContents
       \/ ex_file_type \in ByteTypes /\ ex_content \in ByteContents(TextBytes)
       \/ ex_file_type = "html" /\ ex_content \in HtmlContents
       \/ ex_file_type = "csv" /\ ex_content \in CsvContents
       \/ ex_file_type = "json" /\ ex_content \in JsonContents
       \/ ex_file_type = "xml" /\ ex_content \in XmlContents
       \/ ex_file_type = "pptx" /\ ex_content \in PptxContents
       \/ ex_file_type = "xlsx" /\ ex_content \in XlsxContents

\* document_processor.py:205-233  the branch of file_type is taken; what the
\* extractor raises is raised again as "Text extraction failed"
ExtractBranch(type, result) ==
    /\ ex_pc = "start"
    /\ ex_file_type = type
    /\ ex_result' = result
    /\ ex_pc' = "done"
    /\ UNCHANGED <<ex_file_type, ex_content, bs4_available, pptx_available>>

ExtractPdf == ExtractBranch("pdf", ExtractPdfText(ex_content))
ExtractDocx == ExtractBranch("docx", ExtractDocxText(ex_content))
ExtractTxt == ExtractBranch("txt", ExtractTxtText(ex_content))
ExtractMarkdown == ExtractBranch("md", ExtractMarkdownText(ex_content))
ExtractHtml == ExtractBranch("html", ExtractHtmlText(ex_content, bs4_available))
ExtractCsv == ExtractBranch("csv", ExtractCsvText(ex_content))
ExtractJson == ExtractBranch("json", ExtractJsonText(ex_content))
ExtractXml == ExtractBranch("xml", ExtractXmlText(ex_content))
ExtractPptx == pptx_available /\ ExtractBranch("pptx", ExtractPptxText(ex_content))
ExtractXlsx == ExtractBranch("xlsx", ExtractXlsxText(ex_content))
\* document_processor.py:229-231  any other type, and pptx without the
\* pptx library
ExtractOther ==
    \/ ExtractBranch("rtf", ExtractFallback(ex_content))
    \/ ~pptx_available /\ ExtractBranch("pptx", ExtractFallback(ex_content.bytes))

(***************************************************************************)
(* process_uploaded_files                                                  *)
(***************************************************************************)
\* most files of one upload
MaxFiles == 3

\* helpers.py:57  the extensions validate_file_type lets through
AllowedTypes == {"pdf", "docx", "txt", "pptx", "md", "html", "csv", "json", "xml"}
\* document_processor.py:99-111  SUPPORTED_TYPES
SupportedTypes == AllowedTypes \cup {"xlsx", "rtf"}

UploadedFile(name, type, ok, pages) ==
    [name |-> name, type |-> type, content |-> [ok |-> ok, pages |-> pages]]

\* the files a user may upload: a PDF with text, a PDF without a text layer,
\* a file PyPDF2 cannot open, and two files of types validate_file_type
\* refuses
UploadFiles ==
    { UploadedFile("good.pdf", "pdf", TRUE, << <<"a">> >>),
      UploadedFile("scan.pdf", "pdf", TRUE, << <<>> >>),
      UploadedFile("broken.pdf", "pdf", FALSE, <<>>),
      UploadedFile("tool.exe", "exe", FALSE, <<>>),
      UploadedFile("notes.rtf", "rtf", FALSE, <<>>) }

Uploads == UNION {[1 .. n -> UploadFiles] : n \in 0 .. MaxFiles}

\* document_processor.py:205-233  _extract_text_by_type as a function
ExtractTextByType(content, type) ==
    CASE type = "pdf" -> ExtractPdfText(content)
      [] type = "docx" -> ExtractDocxText(content)
      [] type = "txt" -> ExtractTxtText(content)
      [] type = "md" -> ExtractMarkdownText(content)
      [] type = "html" -> ExtractHtmlText(content, bs4_available)
      [] type = "csv" -> ExtractCsvText(content)
      [] type = "json" -> ExtractJsonText(content)
      [] type = "xml" -> ExtractXmlText(content)
      [] type = "pptx" /\ pptx_available -> ExtractPptxText(content)
      [] type = "xlsx" -> ExtractXlsxText(content)
      [] OTHER -> ExtractFallback(content)

\* document_processor.py:131-169  process_uploaded_file returns a Document
\* (TRUE) or None (FALSE): None for a type that is not supported, for an
\* extraction that raises and for a text that is empty or blank
ReturnsDocument(file) ==
    /\ file.type \in SupportedTypes
    /\ LET extracted == ExtractTextByType(file.content, file.type)
       IN  ~extracted.raised /\ Strip(extracted.text) # <<>>

UploadRecord(name, status) ==
    [filename |-> name, status |-> status, source |-> "upload"]

VARIABLES
    up_pc,             \* position inside process_uploaded_files
    up_session,        \* the session whose button was pressed
    uploaded_files,
    file_idx,          \* index of the next file
    successful_count,
    failed_count,
    files_visited      \* history: files the loop has taken up

upVars == <<up_pc, up_session, uploaded_files, file_idx, successful_count,
            failed_count, files_visited>>

UploadIdle ==
    /\ up_pc = "idle"
    /\ up_session = "s1"
    /\ uploaded_files = <<>>
    /\ file_idx = 1
    /\ successful_count = 0
    /\ failed_count = 0
    /\ files_visited = 0

UploadInit ==
    /\ up_pc = "start"
    /\ up_session \in Sessions
    /\ uploaded_files \in Uploads
    /\ file_idx = 1
    /\ successful_count = 0
    /\ failed_count = 0
    /\ files_visited = 0

\* the variables of the sync subsystem an upload leaves alone
uploadUntouched == <<library, runs_started, run_pc, run_args, raw_docs, doc_idx,
                     processed_docs, processing_results, run_records,
                     source_reachable, now, start_time, run_built, run_calls>>

\* streamlit_app.py:542-551  the processor's settings are overwritten and
\* the counters cleared
UploadBegin(cs, co) ==
    /\ up_pc = "start"
    /\ dp_chunk_size' = cs
    /\ dp_chunk_overlap' = co
    /\ successful_count' = 0
    /\ failed_count' = 0
    /\ file_idx' = 1
    /\ up_pc' = "loop"
    /\ UNCHANGED <<up_session, uploaded_files, files_visited, uploadUntouched,
                   stored, submitted, processing_status, document_count,
                   last_sync_time>>

\* the loop is at a file
AtFile == up_pc = "loop" /\ file_idx <= Len(uploaded_files)

\* the loop goes to the next file
NextFile ==
    /\ file_idx' = file_idx + 1
    /\ files_visited' = files_visited + 1
    /\ UNCHANGED <<up_pc, up_session, uploaded_files, uploadUntouched,
                   dp_chunk_size, dp_chunk_overlap, document_count,
                   last_sync_time>>

\* the loop does not go on after a file validate_file_type refuses
UploadRejectType_stop ==
    /\ AtFile
    /\ uploaded_files[file_idx].type \notin AllowedTypes
    /\ processing_status' = [processing_status EXCEPT ![up_session] =
          Append(@, UploadRecord(uploaded_files[file_idx].name,
                                 "Error: Unsupported file type"))]
    /\ failed_count' = failed_count + 1
    /\ file_idx' = Len(uploaded_files) + 1
    /\ files_visited' = files_visited + 1
    /\ UNCHANGED <<up_pc, up_session, uploaded_files, uploadUntouched,
                   dp_chunk_size, dp_chunk_overlap, document_count,
                   last_sync_time, successful_count, stored, submitted>>

\* streamlit_app.py:555-565  validate_file_type refuses the file
UploadRejectType ==
    /\ AtFile
    /\ uploaded_files[file_idx].type \notin AllowedTypes
    /\ processing_status' = [processing_status EXCEPT ![up_session] =
          Append(@, UploadRecord(uploaded_files[file_idx].name,
                                 "Error: Unsupported file type"))]
    /\ failed_count' = failed_count + 1
    /\ NextFile
    /\ UNCHANGED <<successful_count, stored, submitted>>

\* streamlit_app.py:567-592  a Document is made and passed to
\* insert_documents; the record says whether the store took it
UploadInsert(storeOk) ==
    /\ AtFile
    /\ uploaded_files[file_idx].type \in AllowedTypes
    /\ ReturnsDocument(uploaded_files[file_idx])
    /\ LET name == uploaded_files[file_idx].name
           docs == << [filename |-> name] >>
           result == InsertDocuments(docs, collection, storeOk)
       IN  /\ stored' = StoredAfter(docs, collection, storeOk)
           /\ submitted' = [submitted EXCEPT ![up_session] = CountAdd(@, docs)]
           /\ IF result.successful > 0
              THEN /\ successful_count' = successful_count + 1
                   /\ failed_count' = failed_count
                   /\ processing_status' = [processing_status EXCEPT ![up_session] =
                         Append(@, UploadRecord(name, "Success"))]
              ELSE /\ failed_count' = failed_count + 1
                   /\ successful_count' = successful_count
                   /\ processing_status' = [processing_status EXCEPT ![up_session] =
                         Append(@, UploadRecord(name, "Error: Failed to index"))]
    /\ NextFile

\* streamlit_app.py:567-569, 593-594  process_uploaded_file returns None: the
\* file is counted as failed and no record is appended
UploadNoDocument ==
    /\ AtFile
    /\ uploaded_files[file_idx].type \in AllowedTypes
    /\ ~ReturnsDocument(uploaded_files[file_idx])
    /\ failed_count' = failed_count + 1
    /\ NextFile
    /\ UNCHANGED <<successful_count, stored, submitted, processing_status>>

\* streamlit_app.py:567-573, 598-606  process_uploaded_file or
\* insert_documents raises: the handler counts the file as failed and
\* appends an error record
UploadRaises ==
    /\ AtFile
    /\ uploaded_files[file_idx].type \in AllowedTypes
    /\ failed_count' = failed_count + 1
    /\ processing_status' = [processing_status EXCEPT ![up_session] =
          Append(@, UploadRecord(uploaded_files[file_idx].name, "Error"))]
    /\ NextFile
    /\ UNCHANGED <<successful_count, stored, submitted>>

\* streamlit_app.py:608-624
UploadFinish ==
    /\ up_pc = "loop"
    /\ file_idx > Len(uploaded_files)
    /\ document_count' = [document_count EXCEPT ![up_session] = @ + successful_count]
    /\ last_sync_time' = [last_sync_time EXCEPT ![up_session] = now]
    /\ up_pc' = "done"
    /\ UNCHANGED <<up_session, uploaded_files, file_idx, successful_count,
                   failed_count, files_visited, uploadUntouched, dp_chunk_size,
                   dp_chunk_overlap, stored, submitted, processing_status>>

(***************************************************************************)
(* The identifiers insert_documents gives to the records it stores         *)
(***************************************************************************)
\* calls of insert_documents in one behaviour
MaxCalls == 3
\* last value of the clock, in whole seconds
MaxSeconds == 2

\* lengths of the documents argument: one document (an uploaded file), a
\* short list, and a list that needs a second batch
CallSizes == {1, 2, batch_size + 1}

\* astra_client.py:161  f"doc_{batch_num}_{i}_{int(datetime.now().timestamp())}":
\* three decimal numbers separated by "_", so two identifiers are equal
\* exactly when the three numbers are
DocId(batch, i, second) == <<batch, i, second>>

\* astra_client.py:141-161  the identifiers of a call with n documents made
\* in one second: document j is number j % batch_size of batch j \div batch_size
CallIds(n, second) ==
    {DocId(j \div batch_size, j % batch_size, second) : j \in 0 .. n - 1}

VARIABLES
    id_second,     \* int(datetime.now().timestamp())
    id_calls,      \* history: calls of insert_documents made
    issued,        \* history: identifiers given out
    reissued       \* history: identifiers given out more than once

idVars == <<id_second, id_calls, issued, reissued>>

IdsIdle ==
    /\ id_second = 0
    /\ id_calls = 0
    /\ issued = {}
    /\ reissued = {}

\* astra_client.py:122-196  one call of insert_documents with n documents
InsertCall(n) ==
    /\ id_calls < MaxCalls
    /\ id_calls' = id_calls + 1
    /\ issued' = issued \cup CallIds(n, id_second)
    /\ reissued' = reissued \cup (issued \cap CallIds(n, id_second))
    /\ UNCHANGED id_second

\* a second passes
SecondTick ==
    /\ id_second < MaxSeconds
    /\ id_second' = id_second + 1
    /\ UNCHANGED <<id_calls, issued, reissued>>

(***************************************************************************)
(* The text splitter of the shared DocumentProcessor                       *)
(* (utils/document_processor.py)                                           *)
(***************************************************************************)
VARIABLES
    ts_chunk_size,     \* document_processor.text_splitter.chunk_size
    ts_chunk_overlap   \* document_processor.text_splitter.chunk_overlap

tsVars == <<ts_chunk_size, ts_chunk_overlap>>

\* document_processor.py:113-120  DocumentProcessor() as the app constructs
\* it (streamlit_app.py:127): the splitter gets the defaults of __init__
SplitterBuilt ==
    /\ ts_chunk_size = 1000
    /\ ts_chunk_overlap = 200

\* document_processor.py:492-499  update_chunk_settings: the settings are
\* recorded and the splitter is built anew from them
UpdateChunkSettings(cs, co) ==
    /\ dp_chunk_size' = cs
    /\ dp_chunk_overlap' = co
    /\ ts_chunk_size' = cs
    /\ ts_chunk_overlap' = co
    /\ UNCHANGED <<uploadUntouched, stored, submitted, processing_status,
                   document_count, last_sync_time>>

(***************************************************************************)
(* The search history of a session (streamlit_app.py, search_documents)    *)
(***************************************************************************)
MaxSearches == 53

\* streamlit_app.py:807-808  the size the history is cut back to
SearchHistoryLimit == 50

VARIABLES
    search_history,   \* st.session_state.search_history of the followed
                      \* session, each record given by the number of its search
    search_count,     \* history: searches made so far
    cleared_at        \* history: searches made when the history was last emptied

shVars == <<search_history, search_count, cleared_at>>

\* streamlit_app.py:102-103
SearchIdle ==
    /\ search_history = <<>>
    /\ search_count = 0
    /\ cleared_at = 0

\* the last n elements of a list: list[-n:] for 0 < n
LastN(list, n) ==
    IF Len(list) <= n THEN list ELSE SubSeq(list, Len(list) - n + 1, Len(list))

\* streamlit_app.py:715-808  the search and the display of its result go
\* through: the record is appended and the history cut to its last 50
SearchSucceeds ==
    /\ search_count < MaxSearches
    /\ search_count' = search_count + 1
    /\ LET appended == Append(search_history, search_count + 1)
       IN  search_history' = IF Len(appended) > SearchHistoryLimit
                             THEN LastN(appended, SearchHistoryLimit)
                             ELSE appended
    /\ UNCHANGED cleared_at

\* streamlit_app.py:810-824  something in the try block raised: the record
\* of the failed search is appended
SearchFails ==
    /\ search_count < MaxSearches
    /\ search_count' = search_count + 1
    /\ search_history' = Append(search_history, search_count + 1)
    /\ UNCHANGED cleared_at

\* streamlit_app.py:1183-1193  "Clear Session Data" in session s
ClearSessionData(s) ==
    /\ processing_status' = [processing_status EXCEPT ![s] = <<>>]
    /\ search_history' = <<>>
    /\ document_count' = [document_count EXCEPT ![s] = 0]
    /\ cleared_at' = search_count
    /\ UNCHANGED search_count
    /\ UNCHANGED <<uploadUntouched, dp_chunk_size, dp_chunk_overlap, stored,
                   submitted, last_sync_time>>

(***************************************************************************)
(* Specifications                                                          *)
(***************************************************************************)
vars == <<insVars, spVars, syVars, ftVars, exVars, upVars, idVars, tsVars, shVars>>

InitInsert == InsInit /\ SplitIdle /\ SyncIdle /\ FetchIdle /\ ExtractIdle /\ UploadIdle /\ IdsIdle /\ SplitterBuilt /\ SearchIdle

NextInsert ==
    \/ (InsNoCollection /\ UNCHANGED <<spVars, syVars, ftVars, exVars, upVars, idVars, tsVars, shVars>>)
    \/ (InsBegin /\ UNCHANGED <<spVars, syVars, ftVars, exVars, upVars, idVars, tsVars, shVars>>)
    \/ (InsOuterExcept /\ UNCHANGED <<spVars, syVars, ftVars, exVars, upVars, idVars, tsVars, shVars>>)
    \/ (InsPrepareOk /\ UNCHANGED <<spVars, syVars, ftVars, exVars, upVars, idVars, tsVars, shVars>>)
    \/ (InsPrepareFail /\ UNCHANGED <<spVars, syVars, ftVars, exVars, upVars, idVars, tsVars, shVars>>)
    \/ (InsInsertBatchOk /\ UNCHANGED <<spVars, syVars, ftVars, exVars, upVars, idVars, tsVars, shVars>>)
    \/ (InsInsertBatchFail /\ UNCHANGED <<spVars, syVars, ftVars, exVars, upVars, idVars, tsVars, shVars>>)
    \/ (InsSkipEmptyBatch /\ UNCHANGED <<spVars, syVars, ftVars, exVars, upVars, idVars, tsVars, shVars>>)
    \/ (InsReturn /\ UNCHANGED <<spVars, syVars, ftVars, exVars, upVars, idVars, tsVars, shVars>>)

SpecInsert == InitInsert /\ [][NextInsert]_vars

InitSplit == SplitInit /\ InsIdle /\ SyncIdle /\ FetchIdle /\ ExtractIdle /\ UploadIdle /\ IdsIdle /\ SplitterBuilt /\ SearchIdle

NextSplit ==
    \/ (SplitEarlyReturn /\ UNCHANGED <<insVars, syVars, ftVars, exVars, upVars, idVars, tsVars, shVars>>)
    \/ (SplitBegin /\ UNCHANGED <<insVars, syVars, ftVars, exVars, upVars, idVars, tsVars, shVars>>)
    \/ (SplitCascadeStep /\ UNCHANGED <<insVars, syVars, ftVars, exVars, upVars, idVars, tsVars, shVars>>)
    \/ (SplitCascadeRaise /\ UNCHANGED <<insVars, syVars, ftVars, exVars, upVars, idVars, tsVars, shVars>>)
    \/ (SplitCombineStep /\ UNCHANGED <<insVars, syVars, ftVars, exVars, upVars, idVars, tsVars, shVars>>)
    \/ (SplitFinish /\ UNCHANGED <<insVars, syVars, ftVars, exVars, upVars, idVars, tsVars, shVars>>)

SpecSplit == InitSplit /\ [][NextSplit]_vars

(***************************************************************************)
(* Properties of insert_documents                                          *)
(***************************************************************************)
BatchRange == 0 .. (NumBatches(n_documents) - 1)

\* documents of batch b counted as failed when the call has returned
FailedOfBatch(b) ==
    IF b \in store_failed THEN BatchLen(n_documents, b) ELSE prep_failed[b]

\* documents of batch b counted as successful when the call has returned
SuccessfulOfBatch(b) ==
    IF b \in store_failed THEN 0 ELSE BatchLen(n_documents, b) - prep_failed[b]

\* C1: for every number N of documents and every pattern of preparation and
\* store failures, with or without a collection, the returned record has
\* successful + failed = N and total = N.
C1_CountsAddUp ==
    ins_pc = "done" =>
        /\ ins_result.successful + ins_result.failed = n_documents
        /\ ins_result.total = n_documents

\* a call over three batches with a preparation failure and a store failure
C1_Witness ==
    /\ ins_pc = "done"
    /\ collection
    /\ NumBatches(n_documents) = 3
    /\ store_failed = {1}
    /\ prep_failed[1] > 0
    /\ prep_failed[2] > 0
    /\ ins_result.successful > 0

\* C2: a store failure fails every document of that batch and the loader
\* goes on: every batch, before or after a failed one, that has a prepared
\* document is sent to the store exactly once; failed is the summed size of
\* the store-failed batches (plus the documents whose own preparation raised
\* in the other batches) and successful is the summed size of the other
\* batches (less those documents).
C2_BatchFailureIsolated ==
    (ins_pc = "done" /\ collection) =>
        /\ \A b \in BatchRange :
              insert_many_calls[b] =
                  IF prep_failed[b] < BatchLen(n_documents, b) THEN 1 ELSE 0
        /\ ins_result.failed =
              SumTo([b \in BatchRange |-> FailedOfBatch(b)], NumBatches(n_documents))
        /\ ins_result.successful =
              SumTo([b \in BatchRange |-> SuccessfulOfBatch(b)], NumBatches(n_documents))
        /\ ins_result.total = n_documents

\* 41 documents in batches of 20, 20 and 1, the second batch fails at the
\* store, no preparation failure: successful 21, failed 20, total 41
C2_Witness ==
    /\ ins_pc = "done"
    /\ collection
    /\ n_documents = 2 * batch_size + 1
    /\ store_failed = {1}
    /\ \A b \in BatchRange : prep_failed[b] = 0
    /\ insert_many_calls[2] = 1
    /\ ins_result = [successful |-> batch_size + 1, failed |-> batch_size,
                     total |-> 2 * batch_size + 1]

Returned == sp_pc = "done" /\ ~sp_raised

\* C3: every returned chunk has length at most chunk_size, overlap-seeded
\* chunks included.
C3_ChunksWithinSize ==
    Returned => \A i \in 1 .. Len(sp_result) : Len(sp_result[i]) <= chunk_size

\* length of the overlap region the chunk after prev was seeded with
OverlapLen(prev, co) == IF co > 0 THEN Min(co, Len(prev)) ELSE 0

RECURSIVE DropOverlaps(_, _, _)
\* chunks i .. end with the overlap seeded from the predecessor removed
DropOverlaps(chs, i, co) ==
    IF i > Len(chs) THEN <<>>
    ELSE LET k == IF i = 1 THEN 0 ELSE Min(OverlapLen(chs[i - 1], co), Len(chs[i]))
         IN  SubSeq(chs[i], k + 1, Len(chs[i])) \o DropOverlaps(chs, i + 1, co)

\* C4: the chunks, each after the first without its overlap region,
\* concatenated in order give back the text.
C4_RoundTrip ==
    Returned => DropOverlaps(sp_result, 1, chunk_overlap) = text

\* C5: no returned chunk is empty or whitespace only.
C5_NoBlankChunk ==
    Returned => \A i \in 1 .. Len(sp_result) : Strip(sp_result[i]) # <<>>

\* C6: empty text gives no chunk and a non-empty text no longer than
\* chunk_size gives exactly the text as the only chunk, whatever the overlap.
C6_ShortText ==
    (sp_pc = "done" /\ Len(text) <= chunk_size) =>
        /\ ~sp_raised
        /\ sp_result = IF text = <<>> THEN <<>> ELSE <<text>>

\* a short text with blanks at its ends, split with an overlap
C6_Witness ==
    /\ sp_pc = "done"
    /\ chunk_overlap > 0
    /\ Len(text) = chunk_size
    /\ text[1] = " "
    /\ sp_result = <<text>>

\* C7: splitting a returned chunk again with the same settings returns that
\* chunk alone and unchanged.
C7_Idempotent ==
    Returned =>
        \A i \in 1 .. Len(sp_result) :
            SplitText(sp_result[i], chunk_size, chunk_overlap)
                = [raised |-> FALSE, chunks |-> <<sp_result[i]>>]

(***************************************************************************)
(* Sync runs                                                               *)
(***************************************************************************)
\* the AstraClient may or may not have a collection; nothing else of
\* insert_documents' own state is used by the sync specification
InitSync ==
    /\ SyncInit
    /\ SplitIdle
    /\ FetchIdle
    /\ ExtractIdle /\ UploadIdle /\ IdsIdle /\ SplitterBuilt /\ SearchIdle
    /\ ins_pc = "idle"
    /\ collection \in BOOLEAN
    /\ documents_is_none = FALSE
    /\ n_documents = 0
    /\ batch_num = 0
    /\ doc_i = 0
    /\ batch_docs = 0
    /\ successful_inserts = 0
    /\ failed_inserts = 0
    /\ ins_result = NoResult
    /\ insert_many_calls = [b \in BatchIds |-> 0]
    /\ store_failed = {}
    /\ prep_failed = [b \in BatchIds |-> 0]

NextSync ==
    \/ \E s \in Sessions, cs \in ChunkSizeInputs, co \in ChunkOverlapInputs,
          bs \in BatchSizeInputs :
          StartRun(s, cs, co, bs) /\ UNCHANGED <<insVars, spVars, ftVars, exVars, upVars, idVars, tsVars, shVars>>
    \/ \E s \in Sessions, cs \in ChunkSizeInputs, co \in ChunkOverlapInputs,
          bs \in BatchSizeInputs :
          StartRunRaises(s, cs, co, bs) /\ UNCHANGED <<insVars, spVars, ftVars, exVars, upVars, idVars, tsVars, shVars>>
    \/ \E s \in Sessions, ok \in BOOLEAN :
          ProcessDoc(s, ok) /\ UNCHANGED <<insVars, spVars, ftVars, exVars, upVars, idVars, tsVars, shVars>>
    \/ \E s \in Sessions : ProcessDocRaises(s) /\ UNCHANGED <<insVars, spVars, ftVars, exVars, upVars, idVars, tsVars, shVars>>
    \/ \E s \in Sessions, ok \in BOOLEAN :
          FinishRun(s, ok) /\ UNCHANGED <<insVars, spVars, ftVars, exVars, upVars, idVars, tsVars, shVars>>

SpecSync == InitSync /\ [][NextSync]_vars

\* C8: an item whose name and modification stamp are the same in two
\* consecutive runs of a session is not passed to insert_documents again by
\* the second run, so no session submits the same unchanged item twice.
C8_UnchangedNotResubmitted ==
    \A s \in Sessions : \A d \in ItemSet : submitted[s][d] <= 1

\* C9: a run that has ended, with documents, without documents or with an
\* error, has appended exactly one record to the session's history.
C9_OneRecordPerRun ==
    \A s \in Sessions : run_pc[s] = "ended" => run_records[s] = 1

\* C10: at most one sync run is active at any time.
C10_SingleFlight ==
    Cardinality({s \in Sessions : run_pc[s] = "loop"}) <= 1

(***************************************************************************)
(* get_documents                                                           *)
(***************************************************************************)
InitFetch == FetchInit /\ InsIdle /\ SplitIdle /\ SyncIdle /\ ExtractIdle /\ UploadIdle /\ IdsIdle /\ SplitterBuilt /\ SearchIdle

NextFetch ==
    \/ (FetchUnavailable /\ UNCHANGED <<insVars, spVars, syVars, exVars, upVars, idVars, tsVars, shVars>>)
    \/ (FetchFallback /\ UNCHANGED <<insVars, spVars, syVars, exVars, upVars, idVars, tsVars, shVars>>)
    \/ (FetchBegin /\ UNCHANGED <<insVars, spVars, syVars, exVars, upVars, idVars, tsVars, shVars>>)
    \/ (FetchSkipItem /\ UNCHANGED <<insVars, spVars, syVars, exVars, upVars, idVars, tsVars, shVars>>)
    \/ (FetchTakeItem /\ UNCHANGED <<insVars, spVars, syVars, exVars, upVars, idVars, tsVars, shVars>>)
    \/ (FetchReturn /\ UNCHANGED <<insVars, spVars, syVars, exVars, upVars, idVars, tsVars, shVars>>)

SpecFetch == InitFetch /\ [][NextFetch]_vars

\* C12: with a format filter every returned item has an extension of the
\* filter, on the live path and on every fallback path.
C12_FilterOnEveryPath ==
    (ft_pc = "done" /\ file_types # {}) =>
        \A i \in 1 .. Len(ft_result) : ft_result[i].ext \in file_types

(***************************************************************************)
(* More properties of split_text                                           *)
(***************************************************************************)
\* C15: with chunk_overlap = k > 0, every returned chunk after the first
\* begins with the trailing k characters of the chunk returned before it
\* (the whole previous chunk when it is not longer than k).
C15_ChunksOverlap ==
    (Returned /\ chunk_overlap > 0) =>
        \A i \in 2 .. Len(sp_result) :
            LET seed == LastChars(sp_result[i - 1], chunk_overlap)
            IN  /\ Len(sp_result[i]) >= Len(seed)
                /\ SubSeq(sp_result[i], 1, Len(seed)) = seed

\* C16: split_text returns a list and raises nothing, for every text and
\* every chunk_size > 0.
C16_ReturnsNormally ==
    sp_pc = "done" => ~sp_raised

(***************************************************************************)
(* The runs of one session: with the clock, and with an unreachable source *)
(***************************************************************************)
\* retention size the history list is compared with
HistoryCap == 5

\* the session whose runs are followed
RunSessions == {"s1"}

\* insert_documents is not running on its own; the AstraClient may or may
\* not have a collection
InsAtRest ==
    /\ ins_pc = "idle"
    /\ collection \in BOOLEAN
    /\ documents_is_none = FALSE
    /\ n_documents = 0
    /\ batch_num = 0
    /\ doc_i = 0
    /\ batch_docs = 0
    /\ successful_inserts = 0
    /\ failed_inserts = 0
    /\ ins_result = NoResult
    /\ insert_many_calls = [b \in BatchIds |-> 0]
    /\ store_failed = {}
    /\ prep_failed = [b \in BatchIds |-> 0]

\* the steps of a run of the followed session, with the defaults of the
\* chunk inputs (streamlit_app.py:304-319)
RunSteps ==
    \/ \E s \in RunSessions, bs \in BatchSizeInputs :
          StartRun(s, 1000, 200, bs) /\ UNCHANGED <<insVars, spVars, ftVars, exVars, upVars, idVars, tsVars, shVars>>
    \/ \E s \in RunSessions, bs \in BatchSizeInputs :
          StartRunRaises(s, 1000, 200, bs) /\ UNCHANGED <<insVars, spVars, ftVars, exVars, upVars, idVars, tsVars, shVars>>
    \/ \E s \in RunSessions, ok \in BOOLEAN :
          ProcessDoc(s, ok) /\ UNCHANGED <<insVars, spVars, ftVars, exVars, upVars, idVars, tsVars, shVars>>
    \/ \E s \in RunSessions : ProcessDocRaises(s) /\ UNCHANGED <<insVars, spVars, ftVars, exVars, upVars, idVars, tsVars, shVars>>
    \/ \E s \in RunSessions, ok \in BOOLEAN :
          FinishRun(s, ok) /\ UNCHANGED <<insVars, spVars, ftVars, exVars, upVars, idVars, tsVars, shVars>>

InitRun == SyncInit /\ SplitIdle /\ FetchIdle /\ ExtractIdle /\ UploadIdle /\ IdsIdle /\ SplitterBuilt /\ SearchIdle /\ InsAtRest

NextRun ==
    \/ RunSteps
    \/ (Tick /\ UNCHANGED <<insVars, spVars, ftVars, exVars, upVars, idVars, tsVars, shVars>>)

SpecRun == InitRun /\ [][NextRun]_vars

InitOutage == OutageInit /\ SplitIdle /\ FetchIdle /\ ExtractIdle /\ UploadIdle /\ IdsIdle /\ SplitterBuilt /\ SearchIdle /\ InsAtRest

NextOutage ==
    \/ RunSteps
    \/ \E s \in RunSessions : ClearStatus(s) /\ UNCHANGED <<insVars, spVars, ftVars, exVars, upVars, idVars, tsVars, shVars>>

SpecOutage == InitOutage /\ [][NextOutage]_vars

\* C17: when a run of a session has ended, the last_sync_time the session
\* holds, if it holds one, is the time at which that run started and not
\* the time at which it completed.
C17_LastSyncIsStartTime ==
    \A s \in RunSessions :
        (run_pc[s] = "ended" /\ last_sync_time[s] # NoTime) =>
            last_sync_time[s] = start_time[s]

\* C18: when the source cannot be reached, no run passes a document to
\* insert_documents and the store receives no document.
C18_FetchFailureAborts ==
    ~source_reachable =>
        /\ \A s \in RunSessions : \A d \in ItemSet : submitted[s][d] = 0
        /\ \A d \in ItemSet : stored[d] = 0

\* C19: after any sequence of runs the history list of a session holds no
\* more entries than the retention size.
C19_HistoryCapped ==
    \A s \in RunSessions : Len(processing_status[s]) <= HistoryCap

(***************************************************************************)
(* _extract_text_by_type                                                   *)
(***************************************************************************)
InitExtract == ExtractInit /\ InsIdle /\ SplitIdle /\ SyncIdle /\ FetchIdle /\ UploadIdle /\ IdsIdle /\ SplitterBuilt /\ SearchIdle

NextExtract ==
    \/ (ExtractPdf /\ UNCHANGED <<insVars, spVars, syVars, ftVars, upVars, idVars, tsVars, shVars>>)
    \/ (ExtractDocx /\ UNCHANGED <<insVars, spVars, syVars, ftVars, upVars, idVars, tsVars, shVars>>)
    \/ (ExtractTxt /\ UNCHANGED <<insVars, spVars, syVars, ftVars, upVars, idVars, tsVars, shVars>>)
    \/ (ExtractMarkdown /\ UNCHANGED <<insVars, spVars, syVars, ftVars, upVars, idVars, tsVars, shVars>>)
    \/ (ExtractHtml /\ UNCHANGED <<insVars, spVars, syVars, ftVars, upVars, idVars, tsVars, shVars>>)
    \/ (ExtractCsv /\ UNCHANGED <<insVars, spVars, syVars, ftVars, upVars, idVars, tsVars, shVars>>)
    \/ (ExtractJson /\ UNCHANGED <<insVars, spVars, syVars, ftVars, upVars, idVars, tsVars, shVars>>)
    \/ (ExtractXml /\ UNCHANGED <<insVars, spVars, syVars, ftVars, upVars, idVars, tsVars, shVars>>)
    \/ (ExtractPptx /\ UNCHANGED <<insVars, spVars, syVars, ftVars, upVars, idVars, tsVars, shVars>>)
    \/ (ExtractXlsx /\ UNCHANGED <<insVars, spVars, syVars, ftVars, upVars, idVars, tsVars, shVars>>)
    \/ (ExtractOther /\ UNCHANGED <<insVars, spVars, syVars, ftVars, upVars, idVars, tsVars, shVars>>)

SpecExtract == InitExtract /\ [][NextExtract]_vars

\* C20: for every supported type and every content, _extract_text_by_type
\* raises or returns a text that is neither empty nor blank.
C20_TextOrFailure ==
    (ex_pc = "done" /\ ~ex_result.raised) => Strip(ex_result.text) # <<>>

\* the texts of the pages whose extraction does not raise, in page order
NonFailingPages(pages) == SelectSeq(pages, LAMBDA pg : pg # PageError)

PdfOpened == ex_pc = "done" /\ ex_file_type = "pdf" /\ ex_content.ok

\* _extract_text_by_type called with file_type pdf only
InitPdf ==
    /\ ex_pc = "start"
    /\ bs4_available \in BOOLEAN
    /\ pptx_available \in BOOLEAN
    /\ ex_result = Raised
    /\ ex_file_type = "pdf"
    /\ ex_content \in PdfContents
    /\ InsIdle /\ SplitIdle /\ SyncIdle /\ FetchIdle /\ UploadIdle /\ IdsIdle
    /\ SplitterBuilt /\ SearchIdle

SpecPdf ==
    InitPdf /\ [][ExtractPdf /\ UNCHANGED <<insVars, spVars, syVars, ftVars, upVars, idVars, tsVars, shVars>>]_vars

\* C21 as claimed: whatever pages fail, the call does not raise and returns
\* the concatenation of the texts of the non-failing pages, in order.
C21_PagesConcatenated ==
    PdfOpened =>
        /\ ~ex_result.raised
        /\ ex_result.text = Flatten(NonFailingPages(ex_content.pages))

\* C21 as amended: whatever pages fail, the call does not raise and returns
\* the non-empty texts of the non-failing pages, in order, joined by
\* newlines, without leading and trailing whitespace.
C21_PagesJoined ==
    PdfOpened =>
        /\ ~ex_result.raised
        /\ ex_result.text =
              Strip(Join(SelectSeq(NonFailingPages(ex_content.pages),
                                   LAMBDA pg : pg # <<>>),
                         <<"\n">>))

C21_Witness ==
    /\ PdfOpened
    /\ ex_content.pages = << PageError, <<"a">> >>
    /\ ex_result = Text(<<"a">>)

(***************************************************************************)
(* process_uploaded_files                                                  *)
(***************************************************************************)
InitUpload ==
    /\ UploadInit
    /\ library = 0 /\ source_reachable = TRUE /\ SyncFixed
    /\ SplitIdle /\ FetchIdle /\ ExtractIdle /\ InsAtRest
    /\ IdsIdle /\ SplitterBuilt /\ SearchIdle

NextUpload ==
    \/ \E cs \in ChunkSizeInputs, co \in ChunkOverlapInputs :
          UploadBegin(cs, co) /\ UNCHANGED <<insVars, spVars, ftVars, exVars, idVars, tsVars, shVars>>
    \/ (UploadRejectType /\ UNCHANGED <<insVars, spVars, ftVars, exVars, idVars, tsVars, shVars>>)
    \/ \E ok \in BOOLEAN :
          UploadInsert(ok) /\ UNCHANGED <<insVars, spVars, ftVars, exVars, idVars, tsVars, shVars>>
    \/ (UploadNoDocument /\ UNCHANGED <<insVars, spVars, ftVars, exVars, idVars, tsVars, shVars>>)
    \/ (UploadRaises /\ UNCHANGED <<insVars, spVars, ftVars, exVars, idVars, tsVars, shVars>>)
    \/ (UploadFinish /\ UNCHANGED <<insVars, spVars, ftVars, exVars, idVars, tsVars, shVars>>)

SpecUpload == InitUpload /\ [][NextUpload]_vars

NumberOf(files, pred(_)) == Cardinality({i \in 1 .. Len(files) : pred(files[i])})

\* C22: when process_uploaded_files has ended, every file was taken up, the
\* files of an unsupported type and the files without extractable text are
\* among the failed ones, and successful_count + failed_count is the number
\* of uploaded files.
C22_FailedFilesSkipped ==
    up_pc = "done" =>
        /\ files_visited = Len(uploaded_files)
        /\ successful_count + failed_count = Len(uploaded_files)
        /\ failed_count >=
              NumberOf(uploaded_files,
                       LAMBDA f : f.type \notin AllowedTypes \/ ~ReturnsDocument(f))
        /\ document_count[up_session] = successful_count

C22_Witness ==
    /\ up_pc = "done"
    /\ uploaded_files = << UploadedFile("tool.exe", "exe", FALSE, <<>>),
                           UploadedFile("broken.pdf", "pdf", FALSE, <<>>),
                           UploadedFile("good.pdf", "pdf", TRUE, << <<"a">> >>) >>
    /\ successful_count = 1
    /\ failed_count = 2

\* C28: when process_uploaded_files has ended, it has appended one record
\* for every uploaded file, as many as successful_count + failed_count.
C28_OneRecordPerFile ==
    up_pc = "done" =>
        /\ Len(processing_status[up_session]) = Len(uploaded_files)
        /\ Len(processing_status[up_session]) = successful_count + failed_count

(***************************************************************************)
(* Identifiers over several calls of insert_documents                      *)
(***************************************************************************)
InitIds ==
    /\ IdsIdle /\ SplitterBuilt /\ SearchIdle
    /\ InsIdle /\ SplitIdle /\ SyncIdle /\ FetchIdle /\ ExtractIdle /\ UploadIdle

NextIds ==
    \/ \E n \in CallSizes :
          InsertCall(n) /\ UNCHANGED <<insVars, spVars, syVars, ftVars, exVars, upVars, tsVars, shVars>>
    \/ (SecondTick /\ UNCHANGED <<insVars, spVars, syVars, ftVars, exVars, upVars, tsVars, shVars>>)

SpecIds == InitIds /\ [][NextIds]_vars

\* C23: no identifier is given to two insertions, whether they belong to one
\* call of insert_documents or to two.
C23_IdsNeverCoincide == reissued = {}

(***************************************************************************)
(* More properties of get_documents                                        *)
(***************************************************************************)
\* C24: called with max_docs = m > 0, get_documents returns at most m
\* items, on the live path and on every fallback path.
C24_AtMostMaxDocs ==
    (ft_pc = "done" /\ max_docs > 0) => Len(ft_result) <= max_docs

\* C25: called with since_date, get_documents returns no item modified
\* before since_date, whether or not the item's date can be parsed and
\* compared, and whatever the return path.
C25_NothingOlderThanSince ==
    (ft_pc = "done" /\ since_date # NoSince) =>
        \A i \in 1 .. Len(ft_result) : ft_result[i].age <= since_date

(***************************************************************************)
(* More properties of process_sharepoint_documents                         *)
(***************************************************************************)
\* the documents of the insert_documents calls of session s, in call order
DocsOfCalls(s) == Flatten([k \in 1 .. Len(run_calls[s]) |-> run_calls[s][k].docs])

\* C26: in a run, the documents passed to insert_documents so far, followed
\* by the ones still queued, are the documents built so far, each once and
\* in order; every call carries at least one and at most batch_size
\* documents; when the run has ended nothing is left queued, so every built
\* document was passed in exactly one call.
C26_EveryDocumentInOneCall ==
    \A s \in RunSessions :
        /\ DocsOfCalls(s) \o processed_docs[s] = run_built[s]
        /\ \A k \in 1 .. Len(run_calls[s]) :
              /\ Len(run_calls[s][k].docs) >= 1
              /\ Len(run_calls[s][k].docs) <= run_calls[s][k].limit
        /\ run_pc[s] = "ended" => DocsOfCalls(s) = run_built[s]

C26_Witness ==
    /\ run_pc["s1"] = "ended"
    /\ Len(run_built["s1"]) = 3
    /\ Len(run_calls["s1"]) = 2
    /\ Len(run_calls["s1"][1].docs) = 2
    /\ Len(run_calls["s1"][2].docs) = 1
    /\ run_calls["s1"][2].limit = 2

\* the records of session s that say Success
SuccessRecords(s) == SelectSeq(processing_status[s], LAMBDA r : r.status = "Success")

\* C27: the Success records a session's runs have appended are as many as
\* the documents insert_documents reported as successful for those runs.
C27_SuccessMeansStored ==
    \A s \in RunSessions :
        run_pc[s] \in {"idle", "ended"} =>
            Len(SuccessRecords(s)) = document_count[s]

(***************************************************************************)
(* The chunk settings of the shared processor: runs of one session,        *)
(* an upload of another, and update_chunk_settings                         *)
(***************************************************************************)
InitSettings ==
    /\ UploadInit /\ up_session = "s2" /\ Len(uploaded_files) <= 1
    /\ library \in {0, 1} /\ source_reachable = TRUE /\ SyncFixed
    /\ SplitIdle /\ FetchIdle /\ ExtractIdle /\ InsAtRest
    /\ IdsIdle /\ SplitterBuilt /\ SearchIdle

NextSettings ==
    \/ \E cs \in ChunkSizeInputs, co \in ChunkOverlapInputs :
          UpdateChunkSettings(cs, co)
             /\ UNCHANGED <<insVars, spVars, ftVars, exVars, upVars, idVars, shVars>>
    \/ \E s \in RunSessions, cs \in ChunkSizeInputs, co \in ChunkOverlapInputs :
          StartRun(s, cs, co, 1)
             /\ UNCHANGED <<insVars, spVars, ftVars, exVars, upVars, idVars, tsVars, shVars>>
    \/ \E s \in RunSessions, cs \in ChunkSizeInputs, co \in ChunkOverlapInputs :
          StartRunRaises(s, cs, co, 1)
             /\ UNCHANGED <<insVars, spVars, ftVars, exVars, upVars, idVars, tsVars, shVars>>
    \/ \E s \in RunSessions, ok \in BOOLEAN :
          ProcessDoc(s, ok)
             /\ UNCHANGED <<insVars, spVars, ftVars, exVars, upVars, idVars, tsVars, shVars>>
    \/ \E s \in RunSessions :
          ProcessDocRaises(s)
             /\ UNCHANGED <<insVars, spVars, ftVars, exVars, upVars, idVars, tsVars, shVars>>
    \/ \E s \in RunSessions, ok \in BOOLEAN :
          FinishRun(s, ok)
             /\ UNCHANGED <<insVars, spVars, ftVars, exVars, upVars, idVars, tsVars, shVars>>
    \/ NextUpload

SpecSettings == InitSettings /\ [][NextSettings]_vars

\* C29: the chunk_size and chunk_overlap of the processor's text_splitter
\* are the processor's own chunk_size and chunk_overlap, whatever was done
\* with the processor.
C29_SplitterFollowsSettings ==
    /\ ts_chunk_size = dp_chunk_size
    /\ ts_chunk_overlap = dp_chunk_overlap

(***************************************************************************)
(* The search history                                                      *)
(***************************************************************************)
InitSearch ==
    /\ SearchIdle
    /\ InsIdle /\ SplitIdle /\ SyncIdle /\ FetchIdle /\ ExtractIdle /\ UploadIdle
    /\ IdsIdle /\ SplitterBuilt

NextSearch ==
    \/ (SearchSucceeds
          /\ UNCHANGED <<insVars, spVars, syVars, ftVars, exVars, upVars, idVars, tsVars>>)
    \/ (SearchFails
          /\ UNCHANGED <<insVars, spVars, syVars, ftVars, exVars, upVars, idVars, tsVars>>)
    \/ \E s \in RunSessions :
          ClearSessionData(s)
             /\ UNCHANGED <<insVars, spVars, ftVars, exVars, upVars, idVars, tsVars>>

SpecSearch == InitSearch /\ [][NextSearch]_vars

\* C30: after every search, on either path, search_history holds at most
\* 50 records, and they are the most recent searches, oldest first.
C30_HistoryIsLastFifty ==
    LET made == search_count - cleared_at
        kept == IF made < SearchHistoryLimit THEN made ELSE SearchHistoryLimit
    IN  /\ Len(search_history) <= SearchHistoryLimit
        /\ search_history = [i \in 1 .. kept |-> search_count - kept + i]
====
